---- MODULE Spec2Model ----
(***************************************************************************)
(* A model of the register/field codec framework of the air_quality        *)
(* drivers (sensors/i2c_base.py), of the register APIs built on it         *)
(* (sensors/bmp280.py, sensors/hdc1080.py, sensors/ccs811.py) and of the   *)
(* retry wrapper of the sampling loop (sampling_script.py).                *)
(*                                                                         *)
(* Conventions                                                             *)
(*  - A Python value that may be None is an option: None is <<>> and the   *)
(*    value v is <<v>> (Some(v)).  Every field value, cached or passed to  *)
(*    an encoder, is such an option.                                       *)
(*  - Python's bool is a subclass of int (True == 1, False == 0): the      *)
(*    boolean flags are the integers 1 and 0.                              *)
(*  - bytes are sequences of integers 0..255.                              *)
(*  - A call that returns v is Ok(v) = [err |-> "none", val |-> v]; a call *)
(*    that raises exception class E is Raise("E") = [err |-> "E"].         *)
(*  - A non-integer number is an integer count of a unit that is named     *)
(*    where it is used: BMP280 standby periods count half milliseconds     *)
(*    (0.5 ms is 1, 62.5 ms is 125, 4000 ms is 8000), CCS811 sample        *)
(*    periods count quarter seconds (0.25 s is 1, 60 s is 240) and the     *)
(*    CCS811 env_data temperature and humidity count 1/1024 of a degree    *)
(*    or of a percent.                                                     *)
(***************************************************************************)
EXTENDS Integers, Sequences, FiniteSets, TLC

None == <<>>
Some(v) == <<v>>

Ok(v) == [err |-> "none", val |-> v]
Raise(e) == [err |-> e]
IsOk(r) == r.err = "none"

(***************************************************************************)
(* operators &, |, <<, >> compute them.                                    *)
(*                                                                         *)
(* Throughout, CHOOSE r \in {e(x) : x \in {v}} : TRUE is "e(x) where x is   *)
(* v": it evaluates v once, however often e uses it.                       *)
(***************************************************************************)
RECURSIVE AndBits(_, _)
AndBits(a, b) ==
    IF a = 0 \/ b = 0 THEN 0
    ELSE (a % 2) * (b % 2) + 2 * AndBits(a \div 2, b \div 2)

\* a & b for a, b >= 0
BitAnd(a, b) == CHOOSE r \in {AndBits(x, y) : x \in {a}, y \in {b}} : TRUE

RECURSIVE OrBits(_, _)
OrBits(a, b) ==
    IF a = 0 THEN b
    ELSE IF b = 0 THEN a
    ELSE (IF a % 2 = 1 \/ b % 2 = 1 THEN 1 ELSE 0) + 2 * OrBits(a \div 2, b \div 2)

\* a | b for a, b >= 0
BitOr(a, b) == CHOOSE r \in {OrBits(x, y) : x \in {a}, y \in {b}} : TRUE

ShiftLeft(a, n) == a * (2 ^ n)
ShiftRight(a, n) == a \div (2 ^ n)

Reverse(s) == [i \in 1..Len(s) |-> s[Len(s) + 1 - i]]

RECURSIVE BigEndianValue(_)
BigEndianValue(b) ==
    IF Len(b) = 0 THEN 0
    ELSE 256 * BigEndianValue(SubSeq(b, 1, Len(b) - 1)) + b[Len(b)]

\* the value of big-endian bytes, two's complement when signed
BytesValue(b, signed) ==
    IF signed /\ Len(b) > 0 /\ b[1] >= 128
    THEN BigEndianValue(b) - 256 * (2 ^ (8 * (Len(b) - 1)))
    ELSE BigEndianValue(b)

\* int.from_bytes(b, byteorder, signed=signed)
int_from_bytes(b, byteorder, signed) ==
    CHOOSE r \in {BytesValue(x, signed) :
                     x \in {IF byteorder = "big" THEN b ELSE Reverse(b)}} : TRUE

\* the n least significant base-256 digits of v (two's complement for v < 0),
\* least significant first
RECURSIVE LittleDigits(_, _)
LittleDigits(v, n) ==
    IF n = 0 THEN <<>> ELSE <<v % 256>> \o LittleDigits(v \div 256, n - 1)

RECURSIVE DropBytes(_, _)
DropBytes(v, n) == IF n = 0 THEN v ELSE DropBytes(v \div 256, n - 1)

\* whether value is the integer its length least significant digits d stand
\* for, q being what is left of value above them
Fits(value, length, d, q, signed) ==
    IF signed
    THEN \/ value >= 0 /\ q = 0 /\ (length = 0 \/ d[length] < 128)
         \/ value < 0 /\ q = -1 /\ (length = 0 \/ d[length] >= 128)
    ELSE value >= 0 /\ q = 0

\* the bytes of value, or OverflowError when value does not fit
ToBytes(value, length, byteorder, signed) ==
    CHOOSE r \in {IF ~Fits(value, length, d, q, signed) THEN Raise("OverflowError")
                  ELSE Ok(IF byteorder = "big" THEN Reverse(d) ELSE d) :
                     d \in {LittleDigits(value, length)},
                     q \in {DropBytes(value, length)}} : TRUE

\* a conversion that keeps the low bytes of a value that does not fit
int_to_bytes_truncating(value, length, byteorder, signed) ==
    CHOOSE r \in {Ok(IF byteorder = "big" THEN Reverse(d) ELSE d) :
                     d \in {LittleDigits(value, length)}} : TRUE

\* value.to_bytes(length, byteorder, signed=signed)
int_to_bytes(value, length, byteorder, signed) ==
    CHOOSE r \in {ToBytes(v, length, byteorder, signed) : v \in {value}} : TRUE

\* _count_trailing_zeros(mask)
RECURSIVE TrailingZeros(_)
TrailingZeros(mask) == IF mask % 2 = 1 THEN 0 ELSE 1 + TrailingZeros(mask \div 2)

\* a count without the zero check: the loop body never runs for mask 0
count_trailing_zeros_unchecked(mask) == Ok(IF mask = 0 THEN 0 ELSE TrailingZeros(mask))

count_trailing_zeros(mask) ==
    IF mask = 0 THEN Raise("ValueError") ELSE Ok(TrailingZeros(mask))

(***************************************************************************)
(* Field and the encoders.                                                 *)
(***************************************************************************)
\* Field.__init__: byte_index is a tuple of byte offsets, bit_mask an option
FieldInit(name, byte_index, bit_mask, encoder, read_only, byte_order) ==
    LET tz == IF bit_mask = None THEN Ok(0) ELSE count_trailing_zeros(bit_mask[1])
    IN  IF ~IsOk(tz) THEN Raise(tz.err)
        ELSE Ok([name |-> name,
                 byte_index |-> byte_index,
                 bit_mask |-> bit_mask,
                 encoder |-> encoder,
                 read_only |-> read_only,
                 byte_order |-> byte_order,
                 slice |-> <<byte_index[1], byte_index[Len(byte_index)] + 1>>,
                 shift |-> IF bit_mask = None THEN None ELSE Some(tz.val)])

\* a Field of the static hardware tables: default read_only and byte_order
Field(name, byte_index, bit_mask, encoder) ==
    FieldInit(name, byte_index, bit_mask, encoder, FALSE, "big").val

\* n_bytes = field.byte_index[-1] - field.byte_index[0] + 1
n_bytes(field) == field.byte_index[Len(field.byte_index)] - field.byte_index[1] + 1

UIntEncoder == [kind |-> "UIntEncoder"]
SIntEncoder == [kind |-> "SIntEncoder"]
LookupTable(lookup_table) == [kind |-> "LookupTable", lookup_table |-> lookup_table]
HumidityFixedPoint == [kind |-> "HumidityFixedPoint"]
TemperatureFixedPoint == [kind |-> "TemperatureFixedPoint"]
VoltageEncoder == [kind |-> "VoltageEncoder"]
TemperatureEncoder == [kind |-> "TemperatureEncoder"]
HumidityEncoder == [kind |-> "HumidityEncoder"]

UIntEncoder_encode(value, field) ==
    IF value = None THEN Raise("AttributeError")
    ELSE int_to_bytes(value[1], n_bytes(field), field.byte_order, FALSE)

UIntEncoder_decode(value, field) == Ok(Some(int_from_bytes(value, field.byte_order, FALSE)))

SIntEncoder_encode(value, field) ==
    IF value = None THEN Raise("AttributeError")
    ELSE int_to_bytes(value[1], n_bytes(field), field.byte_order, TRUE)

SIntEncoder_decode(value, field) == Ok(Some(int_from_bytes(value, field.byte_order, TRUE)))

\* a lookup table is the dict's items in insertion order: <<key, code>> pairs
LookupTable_encode(lookup_table, value, field) ==
    LET hits == {i \in 1..Len(lookup_table) : value = Some(lookup_table[i][1])}
    IN  IF hits = {} THEN Raise("KeyError")
        ELSE int_to_bytes(lookup_table[CHOOSE i \in hits : TRUE][2],
                          n_bytes(field), field.byte_order, TRUE)

\* a decode that falls back to the table's first key
LookupTable_decode_default(lookup_table, value, field) ==
    CHOOSE r \in {IF hits = {} THEN Ok(Some(lookup_table[1][1]))
                  ELSE Ok(Some(lookup_table[CHOOSE i \in hits : \A j \in hits : i <= j][1])) :
                     hits \in {{i \in 1..Len(lookup_table) : lookup_table[i][2] = int_val} :
                                  int_val \in {int_from_bytes(value, field.byte_order, FALSE)}}} :
        TRUE

\* LookupTable.decode(value, field): the first key, in dict order, whose
\* code is the unsigned integer of the bytes
LookupTable_decode(lookup_table, value, field) ==
    CHOOSE r \in {IF hits = {} THEN Raise("ValueError")
                  ELSE Ok(Some(lookup_table[CHOOSE i \in hits : \A j \in hits : i <= j][1])) :
                     hits \in {{i \in 1..Len(lookup_table) : lookup_table[i][2] = int_val} :
                                  int_val \in {int_from_bytes(value, field.byte_order, FALSE)}}} :
        TRUE

\* Python's round() of the exact quotient num / den (den > 0): to nearest,
\* a tie to the even neighbour
RoundHalfEven(num, den) ==
    LET q == num \div den
        r == num % den
    IN  IF 2 * r < den THEN q
        ELSE IF 2 * r > den THEN q + 1
        ELSE IF q % 2 = 0 THEN q ELSE q + 1

\* value is a count of 1/1024 %RH: value * 512 is value[1] / 2
HumidityFixedPoint_encode(value, field) ==
    IF value = None THEN Raise("TypeError")
    ELSE int_to_bytes(RoundHalfEven(value[1], 2), n_bytes(field), field.byte_order, FALSE)

HumidityFixedPoint_decode(value, field) ==
    Ok(Some(2 * int_from_bytes(value, field.byte_order, FALSE)))

\* an encode without the threshold at -25 degree C
TemperatureFixedPoint_encode_unclamped(value, field) ==
    IF value = None THEN Raise("TypeError")
    ELSE int_to_bytes(RoundHalfEven(value[1] + 25 * 1024, 2), n_bytes(field),
                      field.byte_order, FALSE)

\* value is a count of 1/1024 degree C: (value + 25) * 512 is (value[1] + 25 * 1024) / 2
TemperatureFixedPoint_encode(value, field) ==
    IF value = None THEN Raise("TypeError")
    ELSE LET val == RoundHalfEven(value[1] + 25 * 1024, 2)
             clamped == IF val > 0 THEN val ELSE 0
         IN  int_to_bytes(clamped, n_bytes(field), field.byte_order, FALSE)

TemperatureFixedPoint_decode(value, field) ==
    Ok(Some(2 * int_from_bytes(value, field.byte_order, FALSE) - 25 * 1024))

\* VoltageEncoder of the CCS811: the result counts 1/102300 V
\* (val / 1023 * 1.65 is val * 165 / 102300)
VoltageEncoder_encode(value, field) == Raise("AttributeError")

VoltageEncoder_decode(value, field) ==
    Ok(Some(165 * int_from_bytes(value, field.byte_order, FALSE)))

\* TemperatureEncoder of the HDC1080: the result counts 1/65536 degree C
TemperatureEncoder_encode(value, field) == Raise("AttributeError")

TemperatureEncoder_decode(value, field) ==
    Ok(Some(165 * int_from_bytes(value, field.byte_order, FALSE) - 40 * 65536))

\* HumidityEncoder of the HDC1080: the result counts 1/65536 %RH
HumidityEncoder_encode(value, field) == Raise("AttributeError")

HumidityEncoder_decode(value, field) ==
    Ok(Some(100 * int_from_bytes(value, field.byte_order, FALSE)))

\* encoder.encode(value, field), dispatched on the encoder's class
Encoder_encode(encoder, value, field) ==
    CASE encoder.kind = "UIntEncoder" -> UIntEncoder_encode(value, field)
      [] encoder.kind = "SIntEncoder" -> SIntEncoder_encode(value, field)
      [] encoder.kind = "LookupTable" -> LookupTable_encode(encoder.lookup_table, value, field)
      [] encoder.kind = "HumidityFixedPoint" -> HumidityFixedPoint_encode(value, field)
      [] encoder.kind = "TemperatureFixedPoint" -> TemperatureFixedPoint_encode(value, field)
      [] encoder.kind = "VoltageEncoder" -> VoltageEncoder_encode(value, field)
      [] encoder.kind = "TemperatureEncoder" -> TemperatureEncoder_encode(value, field)
      [] encoder.kind = "HumidityEncoder" -> HumidityEncoder_encode(value, field)

Encoder_decode(encoder, value, field) ==
    CASE encoder.kind = "UIntEncoder" -> UIntEncoder_decode(value, field)
      [] encoder.kind = "SIntEncoder" -> SIntEncoder_decode(value, field)
      [] encoder.kind = "LookupTable" -> LookupTable_decode(encoder.lookup_table, value, field)
      [] encoder.kind = "HumidityFixedPoint" -> HumidityFixedPoint_decode(value, field)
      [] encoder.kind = "TemperatureFixedPoint" -> TemperatureFixedPoint_decode(value, field)
      [] encoder.kind = "VoltageEncoder" -> VoltageEncoder_decode(value, field)
      [] encoder.kind = "TemperatureEncoder" -> TemperatureEncoder_decode(value, field)
      [] encoder.kind = "HumidityEncoder" -> HumidityEncoder_decode(value, field)

\* Field._decode_mask(raw_bytes)
decode_mask(field, raw_bytes) ==
    IF field.bit_mask = None THEN Ok(raw_bytes)
    ELSE LET out == ShiftRight(BitAnd(int_from_bytes(raw_bytes, field.byte_order, FALSE),
                                      field.bit_mask[1]),
                               field.shift[1])
         IN  int_to_bytes(out, Len(raw_bytes), field.byte_order, FALSE)

\* an _encode_mask that does not shift
encode_mask_noshift(field, encoded_bytes) ==
    IF field.bit_mask = None THEN Ok(encoded_bytes)
    ELSE int_to_bytes(int_from_bytes(encoded_bytes, field.byte_order, FALSE),
                      n_bytes(field), field.byte_order, FALSE)

\* Field._encode_mask(encoded_bytes)
encode_mask(field, encoded_bytes) ==
    IF field.bit_mask = None THEN Ok(encoded_bytes)
    ELSE LET out == ShiftLeft(int_from_bytes(encoded_bytes, field.byte_order, FALSE),
                              field.shift[1])
         IN  int_to_bytes(out, n_bytes(field), field.byte_order, FALSE)

\* Field.encode(value)
Field_encode(field, value) ==
    CHOOSE r \in {IF ~IsOk(out) THEN out ELSE encode_mask(field, out.val) :
                     out \in {Encoder_encode(field.encoder, value, field)}} : TRUE

\* Field.decode(value)
Field_decode(field, value) ==
    CHOOSE r \in {IF ~IsOk(masked) THEN masked
                  ELSE Encoder_decode(field.encoder, masked.val, field) :
                     masked \in {decode_mask(field, value)}} : TRUE

(***************************************************************************)
(* Register: the fields dict is the sequence of its Fields in insertion    *)
(* order.                                                                  *)
(***************************************************************************)
\* {field.name: field for field in fields}: a repeated name keeps the place
\* of its first occurrence and the Field of its last
FieldsDict(fields) ==
    LET firsts == {i \in 1..Len(fields) : \A j \in 1..(i - 1) : fields[j].name # fields[i].name}
        last(i) == CHOOSE j \in 1..Len(fields) :
                       /\ fields[j].name = fields[i].name
                       /\ \A k \in (j + 1)..Len(fields) : fields[k].name # fields[i].name
        RECURSIVE build(_)
        build(i) == IF i > Len(fields) THEN <<>>
                    ELSE (IF i \in firsts THEN <<fields[last(i)]>> ELSE <<>>) \o build(i + 1)
    IN  build(1)

\* Register.__init__
Register(name, address, fields, n_bits, read_only, non_volatile) ==
    [name |-> name,
     address |-> address,
     fields |-> FieldsDict(fields),
     n_bits |-> n_bits,
     read_only |-> read_only,
     non_volatile |-> non_volatile]

FieldNames(reg) == {reg.fields[i].name : i \in 1..Len(reg.fields)}

\* Device.__init__: registers is a dict keyed by register name, built by a
\* comprehension like Register.fields; i2c_addresses is stored as given
Device(name, chip_id, i2c_addresses, registers, byte_order) ==
    [name |-> name,
     chip_id |-> chip_id,
     i2c_addresses |-> i2c_addresses,
     registers |-> FieldsDict(registers),
     byte_order |-> byte_order]

FieldNamed(reg, name) ==
    reg.fields[CHOOSE i \in 1..Len(reg.fields) : reg.fields[i].name = name]

\* b[start:stop] for 0 <= start <= stop: Python cuts the slice at len(b)
PySlice(b, start, stop) == SubSeq(b, start + 1, IF stop < Len(b) THEN stop ELSE Len(b))

\* field.decode(raw_bytes[field._slice]) for every field, in dict order
DecodeFields(reg, raw_bytes) ==
    SubSeq([i \in 1..Len(reg.fields) |->
               Field_decode(reg.fields[i],
                            PySlice(raw_bytes, reg.fields[i].slice[1], reg.fields[i].slice[2]))],
           1, Len(reg.fields))

\* Register._raw_bytes_to_field_values(raw_bytes): the decoded value of every
\* field, or the exception of the first field (in dict order) whose decode raises
raw_bytes_to_field_values(reg, raw_bytes) ==
    CHOOSE r \in {LET bad == {i \in 1..Len(reg.fields) : ~IsOk(dec[i])}
                  IN  IF bad # {} THEN Raise(dec[CHOOSE i \in bad : \A j \in bad : i <= j].err)
                      ELSE Ok([nm \in FieldNames(reg) |->
                                  dec[CHOOSE i \in 1..Len(reg.fields) :
                                          reg.fields[i].name = nm].val]) :
                     dec \in {DecodeFields(reg, raw_bytes)}} : TRUE

\* tuple comparison, as sorted() orders the byte_index keys
RECURSIVE TupleLess(_, _)
TupleLess(a, b) ==
    IF Len(b) = 0 THEN FALSE
    ELSE IF Len(a) = 0 THEN TRUE
    ELSE IF a[1] # b[1] THEN a[1] < b[1]
    ELSE TupleLess(Tail(a), Tail(b))

\* the byte indexes by decreasing order
RECURSIVE SortedTuples_descending(_)
SortedTuples_descending(S) ==
    IF S = {} THEN <<>>
    ELSE LET m == CHOOSE x \in S : \A y \in S \ {x} : TupleLess(y, x)
         IN  <<m>> \o SortedTuples_descending(S \ {m})

\* sorted(byte_map): the byte indexes by increasing tuple order
RECURSIVE SortedTuples(_)
SortedTuples(S) ==
    IF S = {} THEN <<>>
    ELSE LET m == CHOOSE x \in S : \A y \in S \ {x} : TupleLess(x, y)
         IN  <<m>> \o SortedTuples(S \ {m})

RECURSIVE ConcatAll(_)
ConcatAll(ss) == IF Len(ss) = 0 THEN <<>> ELSE Head(ss) \o ConcatAll(Tail(ss))

\* a merge that keeps the last fragment only
ReduceOr_last(ints) == ints[Len(ints)]

\* reduce(lambda x, y: x | y, ints)
RECURSIVE ReduceOr(_)
ReduceOr(ints) ==
    IF Len(ints) = 1 THEN ints[1]
    ELSE BitOr(ReduceOr(SubSeq(ints, 1, Len(ints) - 1)), ints[Len(ints)])

\* a merge that keeps the first fragment only
MergeGroup_first(index, values) == Ok(values[1])

\* the "merge multiples" step for one byte_index: values are the encoded
\* bytes appended to byte_map[index], in insertion order
MergeGroup(index, values) ==
    IF Len(values) = 1 THEN Ok(values[1])
    ELSE CHOOSE r \in {int_to_bytes(ReduceOr(ints), index[Len(index)] - index[1] + 1,
                                    "big", FALSE) :
                          ints \in {SubSeq([i \in 1..Len(values) |->
                                               int_from_bytes(values[i], "big", FALSE)],
                                           1, Len(values))}} : TRUE

\* the first loop of _field_values_to_raw_bytes: the outcome of
\* self.fields[name] and field.encode(value) for every item
EncodeItems(reg, field_values) ==
    SubSeq([i \in 1..Len(field_values) |->
               IF field_values[i][1] \notin FieldNames(reg) THEN Raise("KeyError")
               ELSE Field_encode(FieldNamed(reg, field_values[i][1]), field_values[i][2])],
           1, Len(field_values))

\* the "merge multiples" and "join in correct order" steps; enc is the
\* outcome of field.encode(value) for every item, in insertion order
MergeAndJoin(reg, field_values, enc) ==
    LET N == Len(field_values)
        bad == {i \in 1..N : ~IsOk(enc[i])}
        index(i) == FieldNamed(reg, field_values[i][1]).byte_index
        indexes == {index(i) : i \in 1..N}
        RECURSIVE group(_, _)
        group(idx, i) == IF i > N THEN <<>>
                         ELSE (IF index(i) = idx THEN <<enc[i].val>> ELSE <<>>) \o group(idx, i + 1)
        order == SortedTuples(indexes)
    IN  IF bad # {} THEN Raise(enc[CHOOSE i \in bad : \A j \in bad : i <= j].err)
        ELSE CHOOSE r \in {IF \E k \in 1..Len(order) : ~IsOk(merged[k]) THEN Raise("OverflowError")
                           ELSE Ok(ConcatAll([k \in 1..Len(order) |-> merged[k].val])) :
                              merged \in {SubSeq([k \in 1..Len(order) |->
                                                     MergeGroup(order[k], group(order[k], 1))],
                                                 1, Len(order))}} : TRUE

\* Register._field_values_to_raw_bytes(field_values): field_values is the
\* dict's items in insertion order, a sequence of <<name, value>>; the
\* exception is that of the first item whose encode raises
field_values_to_raw_bytes(reg, field_values) ==
    CHOOSE r \in {MergeAndJoin(reg, items, EncodeItems(reg, items)) :
                     items \in {field_values}} : TRUE

(***************************************************************************)
(* The static hardware tables of the drivers (the registers the register   *)
(* APIs below are bound to).                                               *)
(***************************************************************************)
OversamplingTable == <<<<0, \b000>>, <<1, \b001>>, <<2, \b010>>, <<4, \b011>>, <<8, \b100>>, <<16, \b101>>>>

\* BMP280.hardware.registers["chip_id"]
BMP280_chip_id ==
    Register("chip_id", \hD0, <<Field("id", <<0>>, None, UIntEncoder)>>, 8, TRUE, TRUE)

\* BMP280.hardware.registers["ctrl_meas"]
BMP280_ctrl_meas ==
    Register("ctrl_meas", \hF4,
             <<Field("osrs_t", <<0>>, Some(\b11100000), LookupTable(OversamplingTable)),
               Field("osrs_p", <<0>>, Some(\b00011100), LookupTable(OversamplingTable)),
               Field("mode", <<0>>, Some(\b00000011),
                     LookupTable(<<<<"sleep", \b00>>, <<"forced", \b10>>, <<"normal", \b11>>>>))>>,
             8, FALSE, FALSE)

\* BMP280.hardware.registers["config"]; t_sb keys count half milliseconds
BMP280_config ==
    Register("config", \hF5,
             <<Field("t_sb", <<0>>, Some(\b11100000),
                     LookupTable(<<<<1, \b000>>, <<125, \b001>>, <<250, \b010>>, <<500, \b011>>,
                                   <<1000, \b100>>, <<2000, \b101>>, <<4000, \b110>>,
                                   <<8000, \b111>>>>)),
               Field("filter", <<0>>, Some(\b00011100),
                     LookupTable(<<<<1, \b000>>, <<2, \b001>>, <<4, \b010>>, <<8, \b011>>,
                                   <<16, \b100>>>>)),
               Field("spi3w_en", <<0>>, Some(\b0000001), UIntEncoder)>>,
             8, FALSE, FALSE)

\* HDC1080.hardware.registers["config"]
HDC1080_config ==
    Register("config", \h02,
             <<Field("reset", <<0>>, Some(\b10000000), UIntEncoder),
               Field("heater_on", <<0>>, Some(\b00100000), UIntEncoder),
               Field("measure_both", <<0>>, Some(\b00010000), UIntEncoder),
               FieldInit("battery_low", <<0>>, Some(\b00001000), UIntEncoder, TRUE, "big").val,
               Field("temp_res_bits", <<0>>, Some(\b00000100),
                     LookupTable(<<<<14, 0>>, <<11, 1>>>>)),
               Field("rh_res_bits", <<0>>, Some(\b00000011),
                     LookupTable(<<<<14, \b00>>, <<11, \b01>>, <<8, \b10>>>>)),
               Field("reserved", <<1>>, None, UIntEncoder)>>,
             16, FALSE, FALSE)

\* CCS811.hardware.registers["meas_mode"]; sample_period keys count quarter seconds
CCS811_meas_mode ==
    Register("meas_mode", \h01,
             <<Field("sample_period", <<0>>, Some(\b01110000),
                     LookupTable(<<<<0, 0>>, <<4, 1>>, <<40, \b010>>, <<240, \b011>>,
                                   <<1, \b100>>>>)),
               Field("enable_interrupt", <<0>>, Some(\b00001000), UIntEncoder),
               Field("interrupt_on_thresh", <<0>>, Some(\b00000100), UIntEncoder)>>,
             8, FALSE, FALSE)

\* CCS811.hardware.registers["env_data"]
CCS811_env_data ==
    Register("env_data", \h05,
             <<Field("humidity", <<0, 1>>, None, HumidityFixedPoint),
               Field("temperature", <<2, 3>>, None, TemperatureFixedPoint)>>,
             32, FALSE, FALSE)

\* CCS811.hardware.registers["data"]
CCS811_data ==
    Register("data", \h02,
             <<Field("co2", <<0, 1>>, None, UIntEncoder),
               Field("tvoc", <<2, 3>>, None, UIntEncoder)>>,
             32, TRUE, FALSE)

\* CCS811.hardware.registers["raw_data"]
CCS811_raw_data ==
    Register("raw_data", \h03,
             <<Field("current_uA", <<0>>, Some(\b11111100), UIntEncoder),
               Field("voltage", <<0, 1>>, Some(\h03FF), VoltageEncoder)>>,
             16, TRUE, FALSE)

\* HDC1080.hardware.registers["data"]
HDC1080_data ==
    Register("data", \h00,
             <<Field("temperature", <<0, 1>>, None, TemperatureEncoder),
               Field("humidity", <<2, 3>>, None, HumidityEncoder)>>,
             32, FALSE, FALSE)

\* BMP280.hardware.registers["reset"]
BMP280_reset ==
    Register("reset", \hE0, <<Field("reset", <<0>>, None, UIntEncoder)>>, 8, FALSE, FALSE)

\* BMP280.hardware.registers["data"]
BMP280_data ==
    Register("data", \hF7,
             <<Field("temperature", <<3, 5>>, Some(\hFFFFF0), UIntEncoder),
               Field("pressure", <<0, 2>>, Some(\hFFFFF0), UIntEncoder)>>,
             48, TRUE, FALSE)

\* BMP280.hardware.registers["calibration"]
BMP280_calibration ==
    Register("calibration", \h88,
             <<Field("dig_t1", <<0, 1>>, None, UIntEncoder),
               Field("dig_t2", <<2, 3>>, None, SIntEncoder),
               Field("dig_t3", <<4, 5>>, None, SIntEncoder),
               Field("dig_p1", <<6, 7>>, None, UIntEncoder),
               Field("dig_p2", <<8, 9>>, None, SIntEncoder),
               Field("dig_p3", <<10, 11>>, None, SIntEncoder),
               Field("dig_p4", <<12, 13>>, None, SIntEncoder),
               Field("dig_p5", <<14, 15>>, None, SIntEncoder),
               Field("dig_p6", <<16, 17>>, None, SIntEncoder),
               Field("dig_p7", <<18, 19>>, None, SIntEncoder),
               Field("dig_p8", <<20, 21>>, None, SIntEncoder),
               Field("dig_p9", <<22, 23>>, None, SIntEncoder)>>,
             192, TRUE, TRUE)

\* CCS811.hardware.registers["status"]
CCS811_status ==
    Register("status", \h00,
             <<Field("app_on", <<0>>, Some(\b10000000), UIntEncoder),
               Field("app_erase", <<0>>, Some(\b01000000), UIntEncoder),
               Field("app_verify", <<0>>, Some(\b00100000), UIntEncoder),
               Field("app_valid", <<0>>, Some(\b00010000), UIntEncoder),
               Field("data_ready", <<0>>, Some(\b00001000), UIntEncoder),
               FieldInit("error", <<0>>, Some(1), UIntEncoder, TRUE, "big").val>>,
             8, TRUE, FALSE)

\* CCS811.hardware.registers["reset"]
CCS811_reset ==
    Register("reset", \hFF, <<Field("reset", <<0, 1, 2, 3>>, None, UIntEncoder)>>,
             32, FALSE, FALSE)

(***************************************************************************)
(* The transport.  MockSMBus keeps one integer per word address; the real  *)
(* bus raises OSError when a transaction fails (the fault argument of the  *)
(* device's _i2c_read / _i2c_write below).  A method makes its transport   *)
(* calls one after the other and the first that fails ends it, so an       *)
(* invocation is given the position of the transport call that fails.      *)
(***************************************************************************)
\* MockSMBus.write_i2c_block_data(i2c_address, register_address, values)
MockSMBus_write_i2c_block_data(regs, word_size_bytes, register_address, values) ==
    LET n == Len(values) \div word_size_bytes
        addresses == register_address..(register_address + n - 1)
        word(a) == SubSeq(values, word_size_bytes * (a - register_address) + 1,
                          word_size_bytes * (a - register_address + 1))
    IN  [a \in DOMAIN regs \cup addresses |->
            IF a \in addresses THEN int_from_bytes(word(a), "big", FALSE) ELSE regs[a]]

\* MockSMBus.read_i2c_block_data(i2c_address, register_address, n_bytes)
MockSMBus_read_i2c_block_data(regs, word_size_bytes, register_address, length) ==
    LET n == length \div word_size_bytes
        word(i) == int_to_bytes(regs[register_address + i - 1], word_size_bytes, "big", FALSE)
        missing(i) == register_address + i - 1 \notin DOMAIN regs
        bad == {i \in 1..n : missing(i) \/ ~IsOk(word(i))}
        first == CHOOSE i \in bad : \A j \in bad : i <= j
    IN  IF bad = {} THEN Ok(ConcatAll([i \in 1..n |-> word(i).val]))
        ELSE IF missing(first) THEN Raise("KeyError")
        ELSE Raise("OverflowError")

(***************************************************************************)
(* The register API instances.  A method is an operator from the           *)
(* instance's cache, the bus memory and the call's arguments to the        *)
(* outcome: the cache and the memory afterwards, the exception raised      *)
(* ("none" when the call returns) and the number of transport reads and    *)
(* writes the call invoked.                                                *)
(***************************************************************************)
APIs == {"bmp280.chip_id", "bmp280.ctrl_meas", "bmp280.config",
         "hdc1080.config", "ccs811.meas_mode", "ccs811.env_data",
         "bmp280.reset", "bmp280.calibration", "ccs811.status", "ccs811.reset",
         "ccs811.data"}

\* the instances of ResetAPI (write only, no _cached and no values)
ResetAPIs == {"bmp280.reset", "ccs811.reset"}

\* the instances of ReadOnlyRegisterAPI
ReadOnlyAPIs == {"bmp280.chip_id", "bmp280.calibration", "ccs811.status", "ccs811.data",
                 "bmp280.data"}

\* the instance of DataAPI, whose read() makes two transport calls
DataAPIs == {"bmp280.data"}

\* self._reg
RegOf(api) ==
    CASE api = "bmp280.chip_id" -> BMP280_chip_id
      [] api = "bmp280.ctrl_meas" -> BMP280_ctrl_meas
      [] api = "bmp280.config" -> BMP280_config
      [] api = "hdc1080.config" -> HDC1080_config
      [] api = "ccs811.meas_mode" -> CCS811_meas_mode
      [] api = "ccs811.env_data" -> CCS811_env_data
      [] api = "bmp280.reset" -> BMP280_reset
      [] api = "bmp280.calibration" -> BMP280_calibration
      [] api = "ccs811.status" -> CCS811_status
      [] api = "ccs811.reset" -> CCS811_reset
      [] api = "ccs811.data" -> CCS811_data
      [] api = "bmp280.data" -> BMP280_data

\* the word size of the bus the device is on (the HDC1080 has 16-bit registers)
WordSizeOf(api) == IF api = "hdc1080.config" THEN 2 ELSE 1

Outcome(cached_, regs_, err, io_reads, io_writes) ==
    [cached |-> cached_, regs |-> regs_, err |-> err, io_reads |-> io_reads,
     io_writes |-> io_writes, payload |-> <<>>]

\* BaseRegisterAPI.__init__: every field's value is None
InitialCache(reg) == [nm \in FieldNames(reg) |-> None]

\* the _cached of a new instance; ResetAPI.__init__ makes none
NewCache(api) == IF api \in ResetAPIs THEN <<>> ELSE InitialCache(RegOf(api))

\* the register API of the same device whose cache a method of the
\* instance stores to: CCS811 ResetAPI.write starts the device, which reads
\* the status register through self.status
SiblingOf(api) ==
    IF api = "ccs811.reset" THEN "ccs811.status"
    ELSE IF api = "bmp280.data" THEN "bmp280.calibration"
    ELSE "none"

NewSibling(api) ==
    IF SiblingOf(api) = "none" THEN <<>> ELSE InitialCache(RegOf(SiblingOf(api)))

\* BaseDeviceAPI._i2c_read(register)
i2c_read(api, regs_, fault) ==
    IF fault THEN Raise("OSError")
    ELSE MockSMBus_read_i2c_block_data(regs_, WordSizeOf(api), RegOf(api).address,
                                       RegOf(api).n_bits \div 8)

\* BaseDeviceAPI._i2c_write(register, values): the memory afterwards
i2c_write(api, regs_, values, fault) ==
    IF fault THEN Raise("OSError")
    ELSE Ok(MockSMBus_write_i2c_block_data(regs_, WordSizeOf(api), RegOf(api).address, values))

\* any((val is not None for val in self._cached.values()))
has_been_read(cached_) == \E k \in DOMAIN cached_ : cached_[k] # None

\* the condition of the branch of read() that is meant to skip the transport
CacheHit(api, cached_, ignore_cache) ==
    RegOf(api).non_volatile /\ has_been_read(cached_) /\ ~ignore_cache

\* a read() that keeps the fields it decoded when another field's decode fails
BaseRegisterAPI_read_partial(api, cached_, regs_, ignore_cache, fault) ==
    CHOOSE r \in {LET reg == RegOf(api)
                      dec == DecodeFields(reg, raw_bytes.val)
                      field_values == raw_bytes_to_field_values(reg, raw_bytes.val)
                      idx(nm) == CHOOSE i \in 1..Len(reg.fields) : reg.fields[i].name = nm
                  IN  IF ~IsOk(raw_bytes) THEN Outcome(cached_, regs_, raw_bytes.err, 1, 0)
                      ELSE IF ~IsOk(field_values)
                           THEN Outcome([nm \in DOMAIN cached_ |->
                                            IF IsOk(dec[idx(nm)]) THEN dec[idx(nm)].val
                                            ELSE cached_[nm]],
                                        regs_, field_values.err, 1, 0)
                      ELSE Outcome(field_values.val, regs_, "none", 1, 0) :
                     raw_bytes \in {i2c_read(api, regs_, fault)}} : TRUE

\* BaseRegisterAPI.read(ignore_cache): the cache-hit branch is "pass", so the
\* transport read and the decode below run on every call
BaseRegisterAPI_read(api, cached_, regs_, ignore_cache, fault) ==
    CHOOSE r \in {LET field_values == raw_bytes_to_field_values(RegOf(api), raw_bytes.val)
                  IN  IF ~IsOk(raw_bytes) THEN Outcome(cached_, regs_, raw_bytes.err, 1, 0)
                      ELSE IF ~IsOk(field_values)
                           THEN Outcome(cached_, regs_, field_values.err, 1, 0)
                      ELSE Outcome(field_values.val, regs_, "none", 1, 0) :
                     raw_bytes \in {i2c_read(api, regs_, fault)}} : TRUE

\* dict(items)
DictOf(items) ==
    [k \in {items[i][1] : i \in 1..Len(items)} |->
        items[CHOOSE i \in 1..Len(items) : items[i][1] = k][2]]

\* cached.update(field_map)
DictUpdate(cached_, field_map) ==
    [k \in DOMAIN cached_ \cup DOMAIN DictOf(field_map) |->
        IF k \in DOMAIN DictOf(field_map) THEN DictOf(field_map)[k] ELSE cached_[k]]

\* the items of a cache whose keys are the register's fields, in dict order
CachedItems(reg, cached_) ==
    [i \in 1..Len(reg.fields) |-> <<reg.fields[i].name, cached_[reg.fields[i].name]>>]

\* a write() that hands the transport the first byte only
EncodeAndWrite_first_byte(api, new_cached, regs_, items, fault) ==
    CHOOSE r \in {LET written == i2c_write(api, regs_, SubSeq(encoded.val, 1, 1), fault)
                  IN  IF ~IsOk(encoded) THEN Outcome(new_cached, regs_, encoded.err, 0, 0)
                      ELSE IF ~IsOk(written)
                      THEN [Outcome(new_cached, regs_, written.err, 0, 1)
                               EXCEPT !.payload = SubSeq(encoded.val, 1, 1)]
                      ELSE [Outcome(new_cached, written.val, "none", 0, 1)
                               EXCEPT !.payload = SubSeq(encoded.val, 1, 1)] :
                     encoded \in {field_values_to_raw_bytes(RegOf(api), items)}} : TRUE

\* the last two statements of every write(): encode the given items and hand
\* the bytes to the transport; new_cached is the cache the method has
\* already stored; payload is what the transport is handed
EncodeAndWrite(api, new_cached, regs_, items, fault) ==
    CHOOSE r \in {LET written == i2c_write(api, regs_, encoded.val, fault)
                  IN  IF ~IsOk(encoded) THEN Outcome(new_cached, regs_, encoded.err, 0, 0)
                      ELSE IF ~IsOk(written)
                      THEN [Outcome(new_cached, regs_, written.err, 0, 1)
                               EXCEPT !.payload = encoded.val]
                      ELSE [Outcome(new_cached, written.val, "none", 0, 1)
                               EXCEPT !.payload = encoded.val] :
                     encoded \in {field_values_to_raw_bytes(RegOf(api), items)}} : TRUE

\* ReadOnlyRegisterAPI.write(): the method takes no argument, so a call that
\* passes one raises TypeError before the body runs
ReadOnlyRegisterAPI_write(cached_, regs_, args) ==
    Outcome(cached_, regs_, IF args = <<>> THEN "AttributeError" ELSE "TypeError", 0, 0)

\* a read() of a write-only register that asks the transport before it raises
ResetAPI_read_io(cached_, regs_, ignore_cache) ==
    Outcome(cached_, regs_, IF ignore_cache THEN "TypeError" ELSE "AttributeError", 1, 0)

\* ResetAPI.read() of the BMP280 and of the CCS811: the method takes no
\* argument, so read(ignore_cache=True) raises TypeError before the body runs
ResetAPI_read(cached_, regs_, ignore_cache) ==
    Outcome(cached_, regs_, IF ignore_cache THEN "TypeError" ELSE "AttributeError", 0, 0)

\* ResetAPI.write() of the BMP280
BMP280_ResetAPI_write(api, cached_, regs_, args, fault) ==
    IF args # <<>> THEN Outcome(cached_, regs_, "TypeError", 0, 0)
    ELSE EncodeAndWrite(api, cached_, regs_, <<<<"reset", Some(\hB6)>>>>, fault)

\* an outcome together with the sibling's cache afterwards
WithSibling(out, sibling_) ==
    CHOOSE r \in {[cached |-> o.cached, regs |-> o.regs, err |-> o.err,
                   io_reads |-> o.io_reads, io_writes |-> o.io_writes,
                   payload |-> o.payload,
                   sibling |-> sibling_] : o \in {out}} : TRUE

\* CCS811._start_device(): status_ is the cache of self.status; the outcome's
\* cache is that of self.status afterwards; write_byte is a transport write;
\* read_fault fails the read of the status register, write_fault write_byte
CCS811_start_device(status_, regs_, read_fault, write_fault) ==
    CHOOSE r \in {IF rd.err # "none" THEN rd
                  ELSE IF rd.cached["app_valid"] = Some(0) THEN [rd EXCEPT !.err = "Exception"]
                  ELSE IF write_fault THEN [rd EXCEPT !.err = "OSError", !.io_writes = 1]
                  ELSE [rd EXCEPT !.io_writes = 1] :
                     rd \in {BaseRegisterAPI_read("ccs811.status", status_, regs_, FALSE,
                                                  read_fault)}} : TRUE

\* CCS811.__init__: the register APIs are made and the device is started
CCS811_init(regs_) ==
    CHOOSE r \in {CCS811_start_device(c, regs_, FALSE, FALSE) :
                     c \in {InitialCache(CCS811_status)}} : TRUE

\* ResetAPI.write(app_start) of the CCS811 up to its wait: the reset bytes
\* are encoded and handed to the transport
CCS811_ResetAPI_write(api, cached_, regs_, args, fault) ==
    EncodeAndWrite(api, cached_, regs_, <<<<"reset", Some(\h11E5728A)>>>>, fault)

\* ResetAPI.write(app_start) of the CCS811 goes on after its wait:
\* if app_start: self._parent_device._start_device()
ResetAPI_waits(api, op, args, out) ==
    api = "ccs811.reset" /\ op = "write" /\ out.err = "none" /\ args.app_start = 1

\* a floating-point result of the calibration, kept as the expression it is
\* the value of; as a cache entry it differs from None and from every Some(v)
Float(expression) == <<"float", expression>>

(***************************************************************************)
(* Python's float arithmetic, as far as _apply_calibration needs it to     *)
(* tell whether its division raises.  A float is kept exactly, as          *)
(* [neg, m, e] with the value (-1)^neg * m * 2^e, where the natural number *)
(* m is the sequence of its digits in base 2^14, lowest first and without  *)
(* leading zeros (<<>> is zero).  Every operation gives the exact result   *)
(* rounded to 53 significant bits, half to even, as IEEE 754 doubles do;   *)
(* the integers of the model are far from the range where a double         *)
(* overflows or becomes subnormal.                                         *)
(***************************************************************************)
Limb == 2^14

LimbsDigit(d, i) == IF i <= Len(d) THEN d[i] ELSE 0

RECURSIVE LimbsTrim(_)
LimbsTrim(d) ==
    IF Len(d) > 0 /\ d[Len(d)] = 0 THEN LimbsTrim(SubSeq(d, 1, Len(d) - 1)) ELSE d

\* the digits of the number whose columns from i on are cols, c carried in
RECURSIVE LimbsCarry(_, _, _)
LimbsCarry(cols, i, c) ==
    IF i > Len(cols)
    THEN IF c = 0 THEN <<>> ELSE <<c % Limb>> \o LimbsCarry(cols, i, c \div Limb)
    ELSE <<(cols[i] + c) % Limb>> \o LimbsCarry(cols, i + 1, (cols[i] + c) \div Limb)

\* the digits of n >= 0
LimbsOf(n) == LimbsCarry(<<>>, 1, n)

LimbsAdd(a, b) ==
    LimbsCarry([i \in 1..(IF Len(a) > Len(b) THEN Len(a) ELSE Len(b)) |->
                    LimbsDigit(a, i) + LimbsDigit(b, i)], 1, 0)

\* a - b for a >= b, digit by digit from i on with the borrow br
RECURSIVE LimbsBorrow(_, _, _, _)
LimbsBorrow(a, b, i, br) ==
    IF i > Len(a) THEN <<>>
    ELSE IF a[i] - LimbsDigit(b, i) - br < 0
    THEN <<a[i] - LimbsDigit(b, i) - br + Limb>> \o LimbsBorrow(a, b, i + 1, 1)
    ELSE <<a[i] - LimbsDigit(b, i) - br>> \o LimbsBorrow(a, b, i + 1, 0)

LimbsSub(a, b) == LimbsTrim(LimbsBorrow(a, b, 1, 0))

\* a < b
LimbsLess(a, b) ==
    IF Len(a) # Len(b) THEN Len(a) < Len(b)
    ELSE \E i \in 1..Len(a) : a[i] < b[i] /\ \A j \in (i + 1)..Len(a) : a[j] = b[j]

\* column k of the long multiplication of a and b, from digit i of a on
RECURSIVE LimbsColumn(_, _, _, _)
LimbsColumn(a, b, k, i) ==
    IF i > Len(a) THEN 0
    ELSE (IF k + 1 - i >= 1 /\ k + 1 - i <= Len(b) THEN a[i] * b[k + 1 - i] ELSE 0)
            + LimbsColumn(a, b, k, i + 1)

LimbsMul(a, b) ==
    IF Len(a) = 0 \/ Len(b) = 0 THEN <<>>
    ELSE LimbsCarry([k \in 1..(Len(a) + Len(b) - 1) |-> LimbsColumn(a, b, k, 1)], 1, 0)

RECURSIVE BitLength(_)
BitLength(n) == IF n = 0 THEN 0 ELSE 1 + BitLength(n \div 2)

\* the number of significant bits
LimbsBitLength(d) == IF Len(d) = 0 THEN 0 ELSE 14 * (Len(d) - 1) + BitLength(d[Len(d)])

\* d * 2^k
LimbsShiftLeft(d, k) ==
    IF Len(d) = 0 THEN <<>>
    ELSE [i \in 1..(k \div 14) |-> 0] \o LimbsMul(d, <<2^(k % 14)>>)

\* d \div 2^k
LimbsShiftRight(d, k) ==
    LimbsTrim([i \in 1..(Len(d) - k \div 14) |->
                  LimbsDigit(d, i + k \div 14) \div 2^(k % 14)
                    + (LimbsDigit(d, i + 1 + k \div 14) % 2^(k % 14)) * 2^(14 - (k % 14))])

\* bit j of d, bit 0 the lowest
LimbsBit(d, j) == (LimbsDigit(d, j \div 14 + 1) \div 2^(j % 14)) % 2

\* the j lowest bits of d are zero
LimbsLowZero(d, j) ==
    /\ \A i \in 1..(j \div 14) : LimbsDigit(d, i) = 0
    /\ LimbsDigit(d, j \div 14 + 1) % 2^(j % 14) = 0

\* the double nearest to the exact value x, ties to the even mantissa
DoubleRound(x) ==
    CHOOSE r \in
        {IF k <= 0 THEN d
         ELSE CHOOSE t \in
                {[neg |-> d.neg,
                  m |-> IF /\ LimbsBit(d.m, k - 1) = 1
                           /\ (~LimbsLowZero(d.m, k - 1) \/ q[1] % 2 = 1)
                        THEN LimbsAdd(q, <<1>>) ELSE q,
                  e |-> d.e + k] : q \in {LimbsShiftRight(d.m, k)}} : TRUE :
            d \in {x}, k \in {LimbsBitLength(x.m) - 53}} : TRUE

\* float(n) of an integer n
DoubleOf(n) == [neg |-> n < 0, m |-> LimbsOf(IF n < 0 THEN -n ELSE n), e |-> 0]

\* a / 2^k, exact
DoubleScale(a, k) == [a EXCEPT !.e = @ - k]

\* a * b
DoubleMul(a, b) ==
    CHOOSE r \in
        {DoubleRound([neg |-> x.neg # y.neg, m |-> LimbsMul(x.m, y.m), e |-> x.e + y.e]) :
            x \in {a}, y \in {b}} : TRUE

\* a + b
DoubleAdd(a, b) ==
    CHOOSE r \in
        {CHOOSE t \in
            {DoubleRound(
                IF x.neg = y.neg THEN [neg |-> x.neg, m |-> LimbsAdd(mx, my), e |-> e]
                ELSE IF LimbsLess(mx, my) THEN [neg |-> y.neg, m |-> LimbsSub(my, mx), e |-> e]
                ELSE [neg |-> x.neg, m |-> LimbsSub(mx, my), e |-> e]) :
                mx \in {LimbsShiftLeft(x.m, x.e - e)},
                my \in {LimbsShiftLeft(y.m, y.e - e)}} : TRUE :
            x \in {a}, y \in {b}, e \in {IF a.e < b.e THEN a.e ELSE b.e}} : TRUE

\* a - b
DoubleSub(a, b) == DoubleAdd(a, [b EXCEPT !.neg = ~@])

\* the divisor var1 of the pressure in _apply_calibration, computed as the
\* code computes it from the raw temperature and the calibration constants
PressureDivisor(uncomp_temp, calib_param) ==
    LET dig(k) == DoubleOf(calib_param[k][1])
        t_fine ==
            DoubleAdd(
                \* var1 = (uncomp_temp / 16384 - dig_t1 / 1024) * dig_t2
                DoubleMul(DoubleSub(DoubleScale(DoubleOf(uncomp_temp), 14),
                                    DoubleScale(dig("dig_t1"), 10)),
                          dig("dig_t2")),
                \* var2 = uncomp_temp / 131072 - dig_t1 / 8192
                \* var2 = var2 * var2 * dig_t3
                CHOOSE r \in
                    {DoubleMul(DoubleMul(var2, var2), dig("dig_t3")) :
                        var2 \in {DoubleSub(DoubleScale(DoubleOf(uncomp_temp), 17),
                                            DoubleScale(dig("dig_t1"), 13))}} : TRUE)
    IN  CHOOSE r \in
            {\* var1 = (dig_p3 * var1 * var1 / 524288 + dig_p2 * var1) / 524288
             \* var1 = (1 + var1 / 32768) * dig_p1
             DoubleMul(
                DoubleAdd(
                    DoubleOf(1),
                    DoubleScale(
                        DoubleScale(
                            DoubleAdd(
                                DoubleScale(DoubleMul(DoubleMul(dig("dig_p3"), var1), var1), 19),
                                DoubleMul(dig("dig_p2"), var1)),
                            19),
                        15)),
                dig("dig_p1")) :
                \* var1 = t_fine / 2 - 64000
                var1 \in {DoubleSub(DoubleScale(t_fine, 1), DoubleOf(64000))}} : TRUE

\* _apply_calibration(raw_adc_values, calib_param).  It raises where the
\* arithmetic of the code does: TypeError at a None among the values used up
\* to the division, ZeroDivisionError when the divisor var1 is 0.0, TypeError
\* at a None among the constants used after it.  Each result is kept as the
\* quantity together with the ADC values and calibration constants it is
\* computed from.
apply_calibration(raw_adc_values, calib_param) ==
    IF \/ raw_adc_values["temperature"] = None
       \/ raw_adc_values["pressure"] = None
       \/ \E k \in {"dig_t1", "dig_t2", "dig_t3", "dig_p1", "dig_p2", "dig_p3",
                    "dig_p4", "dig_p5", "dig_p6"} : calib_param[k] = None
    THEN Raise("TypeError")
    ELSE IF PressureDivisor(raw_adc_values["temperature"][1], calib_param).m = <<>>
    THEN Raise("ZeroDivisionError")
    ELSE IF \E k \in {"dig_p7", "dig_p8", "dig_p9"} : calib_param[k] = None
    THEN Raise("TypeError")
    ELSE Ok([q \in {"temperature", "pressure"} |->
               Float([quantity |-> q,
                      uncomp_temp |-> raw_adc_values["temperature"][1],
                      uncomp_pres |-> raw_adc_values["pressure"][1],
                      calib_param |-> calib_param])])

\* DataAPI.read(ignore_cache): calib_ is the cache of the device's
\* calibration API; fault fails the read of the data register, late_fault
\* the read of the calibration register that follows it
DataAPI_read(api, cached_, calib_, regs_, ignore_cache, fault, late_fault) ==
    CHOOSE r \in
        {IF raw.err # "none" THEN WithSibling(raw, calib_)
         ELSE CHOOSE s \in
                {IF cal.err # "none"
                 THEN [cached |-> raw.cached, regs |-> cal.regs, err |-> cal.err,
                       io_reads |-> 2, io_writes |-> 0, payload |-> <<>>,
                       sibling |-> cal.cached]
                 ELSE CHOOSE t \in
                        {[cached |-> IF IsOk(field_values) THEN field_values.val
                                     ELSE raw.cached,
                          regs |-> cal.regs,
                          err |-> field_values.err,
                          io_reads |-> 2, io_writes |-> 0, payload |-> <<>>,
                          sibling |-> cal.cached] :
                            field_values \in {apply_calibration(raw.cached, cal.cached)}} :
                        TRUE :
                    cal \in {BaseRegisterAPI_read(SiblingOf(api), calib_, raw.regs,
                                                  ignore_cache, late_fault)}} : TRUE :
            raw \in {BaseRegisterAPI_read(api, cached_, regs_, FALSE, fault)}} : TRUE

CtrlMeasAPI_modes == {"trigger", "interval", "sleep"}
CtrlMeasAPI_oversampling_values == {0, 1, 2, 4, 8, 16}
mode_map == [trigger |-> "forced", interval |-> "normal", sleep |-> "sleep"]

\* a field map with the two oversampling arguments swapped
CtrlMeasAPI_field_map_swapped(args) ==
    <<<<"osrs_t", Some(args.pressure_oversampling)>>,
      <<"osrs_p", Some(args.temperature_oversampling)>>,
      <<"mode", Some(mode_map[args.measurement_mode])>>>>

\* CtrlMeasAPI.write(pressure_oversampling, temperature_oversampling, measurement_mode)
CtrlMeasAPI_field_map(args) ==
    <<<<"osrs_t", Some(args.temperature_oversampling)>>,
      <<"osrs_p", Some(args.pressure_oversampling)>>,
      <<"mode", Some(mode_map[args.measurement_mode])>>>>

\* a validation that checks the mode only
CtrlMeasAPI_valid_mode_only(args) == args.measurement_mode \in CtrlMeasAPI_modes

CtrlMeasAPI_valid(args) ==
    /\ args.measurement_mode \in CtrlMeasAPI_modes
    /\ args.pressure_oversampling \in CtrlMeasAPI_oversampling_values
    /\ args.temperature_oversampling \in CtrlMeasAPI_oversampling_values

CtrlMeasAPI_write(api, cached_, regs_, args, fault) ==
    IF ~CtrlMeasAPI_valid(args) THEN Outcome(cached_, regs_, "ValueError", 0, 0)
    ELSE LET field_map == CtrlMeasAPI_field_map(args)
         IN  EncodeAndWrite(api, DictUpdate(cached_, field_map), regs_, field_map, fault)

\* ConfigAPI of the BMP280; the periods count half milliseconds
BMP280_ConfigAPI_periods == {1, 125, 250, 500, 1000, 2000, 4000, 8000}
BMP280_ConfigAPI_filter_constants == {1, 2, 4, 8, 16}

BMP280_ConfigAPI_field_map(args) ==
    <<<<"t_sb", Some(args.measurement_period_ms)>>,
      <<"filter", Some(args.smoothing_const)>>,
      <<"spi3w_en", Some(args.disable_I2C)>>>>

BMP280_ConfigAPI_valid(args) ==
    /\ args.measurement_period_ms \in BMP280_ConfigAPI_periods
    /\ args.smoothing_const \in BMP280_ConfigAPI_filter_constants

\* ConfigAPI.write(measurement_period_ms, smoothing_const, disable_I2C) of the BMP280
BMP280_ConfigAPI_write(api, cached_, regs_, args, fault) ==
    IF ~BMP280_ConfigAPI_valid(args) THEN Outcome(cached_, regs_, "ValueError", 0, 0)
    ELSE LET field_map == BMP280_ConfigAPI_field_map(args)
         IN  EncodeAndWrite(api, DictUpdate(cached_, field_map), regs_, field_map, fault)

\* ConfigAPI of the HDC1080
HDC1080_ConfigAPI_resolutions == <<8, 11, 14>>

HDC1080_ConfigAPI_field_map(args) ==
    <<<<"reset", Some(args.soft_reset)>>,
      <<"heater_on", Some(args.heater_on)>>,
      <<"temp_res_bits", Some(args.temp_resolution_bits)>>,
      <<"rh_res_bits", Some(args.humidity_resolution_bits)>>,
      <<"measure_both", Some(args.measure_both)>>,
      <<"reserved", Some(0)>>,
      <<"battery_low", Some(0)>>>>

HDC1080_ConfigAPI_valid(args) ==
    /\ \E i \in 2..3 : args.temp_resolution_bits = HDC1080_ConfigAPI_resolutions[i]
    /\ \E i \in 1..3 : args.humidity_resolution_bits = HDC1080_ConfigAPI_resolutions[i]

\* ConfigAPI.write(soft_reset, heater_on, temp_resolution_bits,
\* humidity_resolution_bits, measure_both) of the HDC1080: the bytes are
\* encoded from the updated cache
HDC1080_ConfigAPI_write(api, cached_, regs_, args, fault) ==
    IF ~HDC1080_ConfigAPI_valid(args) THEN Outcome(cached_, regs_, "ValueError", 0, 0)
    ELSE LET new_cached == DictUpdate(cached_, HDC1080_ConfigAPI_field_map(args))
         IN  EncodeAndWrite(api, new_cached, regs_, CachedItems(RegOf(api), new_cached), fault)

\* MeasModeAPI of the CCS811; the periods count quarter seconds
MeasModeAPI_periods == {0, 1, 4, 40, 240}

MeasModeAPI_field_map(args) ==
    <<<<"sample_period", Some(args.sample_period)>>,
      <<"enable_interrupt", Some(0)>>,
      <<"interrupt_on_thresh", Some(0)>>>>

MeasModeAPI_valid(args) == args.sample_period \in MeasModeAPI_periods

\* MeasModeAPI.write(sample_period): the cache is replaced by the field map
MeasModeAPI_write(api, cached_, regs_, args, fault) ==
    IF ~MeasModeAPI_valid(args) THEN Outcome(cached_, regs_, "ValueError", 0, 0)
    ELSE LET field_map == MeasModeAPI_field_map(args)
         IN  EncodeAndWrite(api, DictOf(field_map), regs_, field_map, fault)

\* EnvDataAPI.write(temperature, humidity): no validation; the arguments
\* count 1/1024 of a degree and of a percent
EnvDataAPI_field_map(args) ==
    <<<<"temperature", Some(args.temperature)>>, <<"humidity", Some(args.humidity)>>>>

EnvDataAPI_write(api, cached_, regs_, args, fault) ==
    LET field_map == EnvDataAPI_field_map(args)
    IN  EncodeAndWrite(api, DictOf(field_map), regs_, field_map, fault)

\* <register API>.write(**args)
API_write(api, cached_, regs_, args, fault) ==
    CASE api \in ReadOnlyAPIs -> ReadOnlyRegisterAPI_write(cached_, regs_, args)
      [] api = "bmp280.reset" -> BMP280_ResetAPI_write(api, cached_, regs_, args, fault)
      [] api = "bmp280.ctrl_meas" -> CtrlMeasAPI_write(api, cached_, regs_, args, fault)
      [] api = "bmp280.config" -> BMP280_ConfigAPI_write(api, cached_, regs_, args, fault)
      [] api = "hdc1080.config" -> HDC1080_ConfigAPI_write(api, cached_, regs_, args, fault)
      [] api = "ccs811.meas_mode" -> MeasModeAPI_write(api, cached_, regs_, args, fault)
      [] api = "ccs811.env_data" -> EnvDataAPI_write(api, cached_, regs_, args, fault)

\* <register API>.read(ignore_cache)
API_read(api, cached_, regs_, ignore_cache, fault) ==
    IF api \in ResetAPIs THEN ResetAPI_read(cached_, regs_, ignore_cache)
    ELSE BaseRegisterAPI_read(api, cached_, regs_, ignore_cache, fault)

\* whether write(**args) passes the method's validation
API_valid(api, args) ==
    CASE api = "bmp280.chip_id" -> TRUE
      [] api = "bmp280.ctrl_meas" -> CtrlMeasAPI_valid(args)
      [] api = "bmp280.config" -> BMP280_ConfigAPI_valid(args)
      [] api = "hdc1080.config" -> HDC1080_ConfigAPI_valid(args)
      [] api = "ccs811.meas_mode" -> MeasModeAPI_valid(args)
      [] api = "ccs811.env_data" -> TRUE

\* the field map write(**args) builds
API_field_map(api, args) ==
    CASE api = "bmp280.ctrl_meas" -> CtrlMeasAPI_field_map(args)
      [] api = "bmp280.config" -> BMP280_ConfigAPI_field_map(args)
      [] api = "hdc1080.config" -> HDC1080_ConfigAPI_field_map(args)
      [] api = "ccs811.meas_mode" -> MeasModeAPI_field_map(args)
      [] api = "ccs811.env_data" -> EnvDataAPI_field_map(args)

\* a reset that keeps the cache
reset_cache_keep(cached_) == cached_

\* a reset that empties the dict
reset_cache_clear(cached_) == [k \in {} |-> None]

\* reset_cache(reg)
reset_cache(cached_) == [k \in DOMAIN cached_ |-> None]

\* reset_cache(method.__self__) after an outcome: a ResetAPI has no values
\* attribute, so the call raises AttributeError
AfterReset(api, out) ==
    IF api \in ResetAPIs THEN [out EXCEPT !.err = "AttributeError"]
    ELSE [out EXCEPT !.cached = reset_cache(out.cached)]

(***************************************************************************)
(* The state machine of one register API instance and of the sampling      *)
(* loop's retry wrapper around its methods.                                *)
(*   api     the instance (fixed in a behaviour)                           *)
(*   cached  the instance's _cached dict                                   *)
(*   sibling the _cached dict of the sibling register API a method of the  *)
(*           instance stores to (<<>> when it has none)                    *)
(*   regs    the memory of the bus the device is on                        *)
(*   pc      "idle", or "retry" while io_safe_retries is between two       *)
(*           attempts of the wrapped method, or "wait" while a write() of  *)
(*           the CCS811 reset API waits before it starts the device        *)
(*   call    the latest invocation of read() or write(): its arguments,    *)
(*           what it raised, the transport calls it made, the bytes it     *)
(*           handed to the transport's block write, and the wrapper's      *)
(*           bookkeeping                                                   *)
(* The codec functions of Field and Register are pure; they are applied    *)
(* under CodecSpec, which uses                                             *)
(*   input   the function applied and its arguments                        *)
(*   output  what it returned or raised (<<>> before the application)      *)
(* The serial-port drivers of drivers/ are run under PmsSpec and S8Spec,   *)
(* which use                                                               *)
(*   mode    PMS7003.mode (<<>> for the other devices)                     *)
(*   pc      for the S8: "ack_cleared" and "calibrating" while             *)
(*           configure_abc waits after clear_ack and after force_abc       *)
(*   serial  the calls the latest method made on the serial port           *)
(***************************************************************************)
VARIABLES api, cached, sibling, regs, pc, call, input, output, mode, serial

vars == <<api, cached, sibling, regs, pc, call, input, output, mode, serial>>

\* for _ in range(2)
Retries == 2

\* the calibration bytes of the mocked_BMP280 fixture, by address
calibration_registers ==
    [x \in \h88..\h9F |->
        <<\h70, \h6B, \h43, \h67, \h18, \hFC, \h7D, \h8E, \h43, \hD6, \hD0, \h0B,
          \h27, \h0B, \h8C, \h00, \hF9, \hFF, \h8C, \h3C, \hF8, \hC6, \h70, \h17>>[x - \h87]]

\* the bytes of the data register in the CCS811 test fixture, by address
data_registers == [x \in 2..5 |-> <<\h00, \h80, \h01, \h00>>[x - 1]]

\* the memory the bus may hold when the device object is constructed: the
\* test fixture's value of the register, and a second value (for the
\* lookup-table registers one with a code no table has).  For the BMP280's
\* data there is a third: a reading and calibration constants (dig_t2 =
\* -32768, dig_p1 = 1, dig_p2 = 32767, dig_p3 = -1, the others 0) for which
\* the divisor of the pressure is 0.0 although dig_p1 is not.  The memory of the
\* CCS811's bus holds the status register the constructor reads; for the
\* status and reset APIs it is the fixture's, one of a device in boot mode,
\* and one whose application is not valid

\* a memory of the CCS811's bus with the fixture's status register added
WithStatus(r) == [x \in {\h00} \cup DOMAIN r |-> IF x = \h00 THEN \b10111000 ELSE r[x]]

InitRegs(a) ==
    CASE a = "bmp280.chip_id" -> {[x \in {\hD0} |-> \h58], [x \in {\hD0} |-> 0]}
      [] a = "bmp280.ctrl_meas" -> {[x \in {\hF4} |-> \b01001010], [x \in {\hF4} |-> \b00000001]}
      [] a = "bmp280.config" -> {[x \in {\hF5} |-> \b10000100], [x \in {\hF5} |-> \b00010100]}
      [] a = "hdc1080.config" -> {[x \in {\h02} |-> \h1800], [x \in {\h02} |-> \h0003]}
      [] a = "ccs811.meas_mode" ->
            {WithStatus([x \in {\h01} |-> v]) : v \in {\b00011100, \b01110000}}
      [] a = "ccs811.env_data" -> {WithStatus([x \in 5..8 |-> 0])}
      [] a = "bmp280.reset" -> {[x \in {\hE0} |-> \h00]}
      [] a = "bmp280.calibration" -> {calibration_registers, [x \in \h88..\h9F |-> 0]}
      [] a = "ccs811.status" ->
            {[x \in {\h00} |-> v] : v \in {\b10111000, \b00010000, \b10101000}}
      [] a = "ccs811.reset" ->
            {[x \in {\h00} |-> v] : v \in {\b10111000, \b00010000, \b10101000}}
      [] a = "ccs811.data" -> {WithStatus(data_registers)}
      [] a = "bmp280.data" ->
            {[x \in \hF7..\hFC \cup DOMAIN c |->
                 IF x \in DOMAIN c THEN c[x]
                 ELSE <<\h65, \h5A, \hC0, \h7E, \hED, \h00>>[x - \hF6]] :
                c \in {calibration_registers, [x \in \h88..\h9F |-> 0]}}
            \cup {[x \in \h88..\h9F \cup \hF7..\hFC |->
                     IF x >= \hF7 THEN <<\h65, \h5A, \hC0, \h70, \h60, \h00>>[x - \hF6]
                     ELSE <<\h00, \h00, \h80, \h00, \h00, \h00, \h00, \h01,
                            \h7F, \hFF, \hFF, \hFF, \h00, \h00, \h00, \h00,
                            \h00, \h00, \h00, \h00, \h00, \h00, \h00, \h00>>[x - \h87]]}

\* the arguments write() is called with: the defaults, two more allowed
\* combinations (every allowed one for the CCS811), and the defaults with one
\* argument outside its allowed set; for the methods that take no argument,
\* none and one too many
CtrlMeasAPI_defaults ==
    [pressure_oversampling |-> 16, temperature_oversampling |-> 2, measurement_mode |-> "trigger"]

BMP280_ConfigAPI_defaults ==
    [measurement_period_ms |-> 8000, smoothing_const |-> 1, disable_I2C |-> 0]

HDC1080_ConfigAPI_defaults ==
    [soft_reset |-> 0, heater_on |-> 0, temp_resolution_bits |-> 14,
     humidity_resolution_bits |-> 14, measure_both |-> 1]

WriteArgs(a) ==
    CASE a \in ReadOnlyAPIs \cup {"bmp280.reset"} -> {<<>>, <<1>>}
      [] a = "ccs811.reset" -> [app_start : {0, 1}]
      [] a = "bmp280.ctrl_meas" ->
            {CtrlMeasAPI_defaults,
             [pressure_oversampling |-> 4, temperature_oversampling |-> 1,
              measurement_mode |-> "interval"],
             [pressure_oversampling |-> 0, temperature_oversampling |-> 16,
              measurement_mode |-> "sleep"]}
            \cup {[CtrlMeasAPI_defaults EXCEPT !.measurement_mode = "asdf"],
                  [CtrlMeasAPI_defaults EXCEPT !.pressure_oversampling = 7],
                  [CtrlMeasAPI_defaults EXCEPT !.temperature_oversampling = 7]}
      [] a = "bmp280.config" ->
            {BMP280_ConfigAPI_defaults,
             [measurement_period_ms |-> 1, smoothing_const |-> 16, disable_I2C |-> 1],
             [measurement_period_ms |-> 125, smoothing_const |-> 4, disable_I2C |-> 0]}
            \cup {[BMP280_ConfigAPI_defaults EXCEPT !.measurement_period_ms = 123],
                  [BMP280_ConfigAPI_defaults EXCEPT !.smoothing_const = 7]}
      [] a = "hdc1080.config" ->
            {HDC1080_ConfigAPI_defaults,
             [soft_reset |-> 1, heater_on |-> 1, temp_resolution_bits |-> 11,
              humidity_resolution_bits |-> 8, measure_both |-> 0],
             [soft_reset |-> 0, heater_on |-> 0, temp_resolution_bits |-> 11,
              humidity_resolution_bits |-> 11, measure_both |-> 1]}
            \cup {[HDC1080_ConfigAPI_defaults EXCEPT !.temp_resolution_bits = 8],
                  [HDC1080_ConfigAPI_defaults EXCEPT !.humidity_resolution_bits = 420]}
      [] a = "ccs811.meas_mode" -> [sample_period : MeasModeAPI_periods \cup {123}]
      [] a = "ccs811.env_data" ->
            [temperature : {25 * 1024, -30 * 1024}, humidity : {50 * 1024, -1024}]

\* no codec function is applied under Spec
NoCodec == [fn |-> "none"]

NoCall ==
    [op |-> "none", args |-> <<>>, ignore_cache |-> FALSE, cache_hit |-> FALSE,
     wrapped |-> FALSE, invocations |-> 0, err |-> "none",
     io_reads |-> 0, io_writes |-> 0, payload |-> <<>>, reset |-> FALSE]

\* the transport call of a step on which the bus fails (0: on none); a step
\* makes two at most: the reads of DataAPI.read, and the status read and
\* write_byte of _start_device()
Faults == 0..2

\* the register APIs of a CCS811, whose constructor starts the device
CCS811_APIs ==
    {"ccs811.meas_mode", "ccs811.env_data", "ccs811.status", "ccs811.reset", "ccs811.data"}

\* the instance's _cached when the device's constructor has returned
ConstructedCache(a, regs_) ==
    IF a = "ccs811.status" THEN CCS811_init(regs_).cached ELSE NewCache(a)

\* the sibling's _cached when the device's constructor has returned
ConstructedSibling(a, regs_) ==
    IF a = "ccs811.reset" THEN CCS811_init(regs_).cached ELSE NewSibling(a)

\* the instance once the constructor of its device has returned; that of
\* the CCS811 raises when _start_device() does
Init ==
    /\ api \in APIs
    /\ regs \in InitRegs(api)
    /\ api \in CCS811_APIs => CCS811_init(regs).err = "none"
    /\ cached = ConstructedCache(api, regs)
    /\ sibling = ConstructedSibling(api, regs)
    /\ pc = "idle"
    /\ call = NoCall
    /\ input = NoCodec
    /\ output = NoCodec
    /\ mode = None
    /\ serial = <<>>

\* method(*args, **kwargs) for a bound method of the instance, up to the
\* method's return or to its wait, the bus failing on the transport call of
\* that position (0: on none)
Invoke(op, args, ignore_cache, fault) ==
    IF op = "read" /\ api \in DataAPIs
    THEN DataAPI_read(api, cached, sibling, regs, ignore_cache, fault = 1, fault = 2)
    ELSE IF op = "read"
    THEN WithSibling(API_read(api, cached, regs, ignore_cache, fault = 1), sibling)
    ELSE IF api = "ccs811.reset"
         THEN WithSibling(CCS811_ResetAPI_write(api, cached, regs, args, fault = 1), sibling)
    ELSE WithSibling(API_write(api, cached, regs, args, fault = 1), sibling)

\* err is "pending" while the method waits, not having returned
CallRecord(op, args, ignore_cache, wrapped, invocations, out, reset) ==
    [op |-> op, args |-> args, ignore_cache |-> ignore_cache,
     cache_hit |-> op = "read" /\ CacheHit(api, cached, ignore_cache),
     wrapped |-> wrapped, invocations |-> invocations,
     err |-> IF ResetAPI_waits(api, op, args, out) THEN "pending" ELSE out.err,
     io_reads |-> out.io_reads, io_writes |-> out.io_writes, payload |-> out.payload,
     reset |-> reset]

\* <api>.read(ignore_cache), called directly
Read(ignore_cache, fault) ==
    /\ pc = "idle"
    /\ \E out \in {Invoke("read", <<>>, ignore_cache, fault)} :
          /\ cached' = out.cached
          /\ sibling' = out.sibling
          /\ regs' = out.regs
          /\ call' = CallRecord("read", <<>>, ignore_cache, FALSE, 1, out, FALSE)
    /\ UNCHANGED <<api, pc, input, output, mode, serial>>

\* <api>.write(**args), called directly
Write(args, fault) ==
    /\ pc = "idle"
    /\ \E out \in {Invoke("write", args, FALSE, fault)} :
          /\ cached' = out.cached
          /\ sibling' = out.sibling
          /\ regs' = out.regs
          /\ call' = CallRecord("write", args, FALSE, FALSE, 1, out, FALSE)
          /\ pc' = IF ResetAPI_waits(api, "write", args, out) THEN "wait" ELSE "idle"
    /\ UNCHANGED <<api, input, output, mode, serial>>

\* a wrapper that goes on to retry after any exception
SafeCall_retry_all(op, args, ignore_cache, fault) ==
    /\ pc = "idle"
    /\ \E out \in {Invoke(op, args, ignore_cache, fault)} :
          /\ cached' = out.cached
          /\ sibling' = out.sibling
          /\ regs' = out.regs
          /\ call' = CallRecord(op, args, ignore_cache, TRUE, 1, out, FALSE)
          /\ pc' = IF ResetAPI_waits(api, op, args, out) THEN "wait"
                   ELSE IF out.err # "none" THEN "retry" ELSE "idle"
    /\ UNCHANGED <<api, input, output, mode, serial>>

\* io_safe_retries(method, *args, **kwargs) up to the end of its first
\* attempt: it returns, or the exception propagates, unless the attempt
\* raised OSError
SafeCall(op, args, ignore_cache, fault) ==
    /\ pc = "idle"
    /\ \E out \in {Invoke(op, args, ignore_cache, fault)} :
          /\ cached' = out.cached
          /\ sibling' = out.sibling
          /\ regs' = out.regs
          /\ call' = CallRecord(op, args, ignore_cache, TRUE, 1, out, FALSE)
          /\ pc' = IF ResetAPI_waits(api, op, args, out) THEN "wait"
                   ELSE IF out.err = "OSError" THEN "retry" ELSE "idle"
    /\ UNCHANGED <<api, input, output, mode, serial>>

SafeRead(ignore_cache, fault) == SafeCall("read", <<>>, ignore_cache, fault)

SafeWrite(args, fault) == SafeCall("write", args, FALSE, fault)

\* a retry loop with one more turn
Retry_one_more(fault) ==
    /\ pc = "retry"
    /\ \E out \in {Invoke(call.op, call.args, call.ignore_cache, fault)} :
          \E exhausted \in {out.err = "OSError" /\ call.invocations + 1 = 2 + Retries} :
             \E fin \in {IF exhausted THEN AfterReset(api, out) ELSE out} :
                /\ cached' = fin.cached
                /\ sibling' = fin.sibling
                /\ regs' = fin.regs
                /\ call' = CallRecord(call.op, call.args, call.ignore_cache, TRUE,
                                      call.invocations + 1, fin,
                                      exhausted /\ fin.err = "OSError")
                /\ pc' = IF ResetAPI_waits(api, call.op, call.args, out) THEN "wait"
                         ELSE IF out.err = "OSError" /\ ~exhausted THEN "retry" ELSE "idle"
    /\ UNCHANGED <<api, input, output, mode, serial>>

\* one turn of the retry loop of io_safe_retries: the attempt returns, or
\* raises something other than OSError (which propagates), or raises OSError;
\* after the last retry's OSError the loop ends and reset_cache runs
Retry(fault) ==
    /\ pc = "retry"
    /\ \E out \in {Invoke(call.op, call.args, call.ignore_cache, fault)} :
          \E exhausted \in {out.err = "OSError" /\ call.invocations + 1 = 1 + Retries} :
             \E fin \in {IF exhausted THEN AfterReset(api, out) ELSE out} :
                /\ cached' = fin.cached
                /\ sibling' = fin.sibling
                /\ regs' = fin.regs
                /\ call' = CallRecord(call.op, call.args, call.ignore_cache, TRUE,
                                      call.invocations + 1, fin,
                                      exhausted /\ fin.err = "OSError")
                /\ pc' = IF ResetAPI_waits(api, call.op, call.args, out) THEN "wait"
                         ELSE IF out.err = "OSError" /\ ~exhausted THEN "retry" ELSE "idle"
    /\ UNCHANGED <<api, input, output, mode, serial>>

\* the rest of CCS811 ResetAPI.write(app_start=True) after its wait:
\* _start_device(), and what the caller does when the method has ended
StartDevice(fault) ==
    /\ pc = "wait"
    /\ \E out \in {CCS811_start_device(sibling, regs, fault = 1, fault = 2)} :
          \E exhausted \in {/\ call.wrapped /\ out.err = "OSError"
                             /\ call.invocations = 1 + Retries} :
             \E fin \in {IF exhausted THEN AfterReset(api, out) ELSE out} :
                /\ sibling' = fin.cached
                /\ regs' = fin.regs
                /\ call' = [call EXCEPT !.err = fin.err,
                                        !.io_reads = @ + fin.io_reads,
                                        !.io_writes = @ + fin.io_writes,
                                        !.reset = exhausted /\ fin.err = "OSError"]
                /\ pc' = IF call.wrapped /\ out.err = "OSError" /\ ~exhausted
                         THEN "retry" ELSE "idle"
    /\ UNCHANGED <<api, cached, input, output, mode, serial>>

Next ==
    \/ \E ignore_cache \in BOOLEAN, fault \in Faults : Read(ignore_cache, fault)
    \/ \E args \in WriteArgs(api), fault \in Faults : Write(args, fault)
    \/ \E ignore_cache \in BOOLEAN, fault \in Faults : SafeRead(ignore_cache, fault)
    \/ \E args \in WriteArgs(api), fault \in Faults : SafeWrite(args, fault)
    \/ \E fault \in Faults : Retry(fault)
    \/ \E fault \in Faults : StartDevice(fault)

Spec == Init /\ [][Next]_vars

\* the retry loop is sequential code: a started io_safe_retries call keeps
\* running, and a wait inside an attempt ends
FairSpec ==
    /\ Spec
    /\ WF_vars(\E fault \in Faults : Retry(fault))
    /\ WF_vars(\E fault \in Faults : StartDevice(fault))

(***************************************************************************)
(* DataSpec: Spec with the BMP280's data API among the instances.  Its     *)
(* read() reads the data register and then, through the device's           *)
(* calibration API (the sibling), the calibration register; the bus may    *)
(* fail on either transport call.                                          *)
(***************************************************************************)
DataInit ==
    /\ api \in APIs \cup DataAPIs
    /\ regs \in InitRegs(api)
    /\ api \in CCS811_APIs => CCS811_init(regs).err = "none"
    /\ cached = ConstructedCache(api, regs)
    /\ sibling = ConstructedSibling(api, regs)
    /\ pc = "idle"
    /\ call = NoCall
    /\ input = NoCodec
    /\ output = NoCodec
    /\ mode = None
    /\ serial = <<>>

DataSpec == DataInit /\ [][Next]_vars

(***************************************************************************)
(* WriteSpec: one instance, every allowed combination of write()'s         *)
(* arguments, a working bus; reads and writes alternate.                   *)
(***************************************************************************)
\* the combinations of arguments that pass write()'s validation
AllowedArgs(a) ==
    CASE a \in ReadOnlyAPIs \cup {"bmp280.reset"} -> {<<>>}
      [] a = "ccs811.reset" -> [app_start : {0, 1}]
      [] a = "bmp280.ctrl_meas" ->
            [pressure_oversampling : CtrlMeasAPI_oversampling_values,
             temperature_oversampling : CtrlMeasAPI_oversampling_values,
             measurement_mode : CtrlMeasAPI_modes]
      [] a = "bmp280.config" ->
            [measurement_period_ms : BMP280_ConfigAPI_periods,
             smoothing_const : BMP280_ConfigAPI_filter_constants,
             disable_I2C : {0, 1}]
      [] a = "hdc1080.config" ->
            [soft_reset : {0, 1}, heater_on : {0, 1}, temp_resolution_bits : {11, 14},
             humidity_resolution_bits : {8, 11, 14}, measure_both : {0, 1}]
      [] a = "ccs811.meas_mode" -> [sample_period : MeasModeAPI_periods]
      [] a = "ccs811.env_data" ->
            [temperature : {25 * 1024, -30 * 1024, 0}, humidity : {50 * 1024, 0, 100 * 1024}]

WriteNext ==
    \/ \E ignore_cache \in BOOLEAN : call.op # "read" /\ Read(ignore_cache, 0)
    \/ \E args \in AllowedArgs(api) : call.op # "write" /\ Write(args, 0)
    \/ StartDevice(0)

WriteSpec == Init /\ [][WriteNext]_vars

(***************************************************************************)
(* CodecSpec: the pure functions of Field and Register, applied once to an *)
(* input drawn by CodecInit.                                               *)
(***************************************************************************)
\* Field("", bit_mask=...) as test_i2c_base.py builds them: every one-byte
\* mask, the multi-byte masks of the tests, a little-endian field, no mask
MaskFields ==
    {Field("", <<0>>, Some(m), UIntEncoder) : m \in 1..255}
    \cup {Field("", <<0, 1, 2>>, Some(\h0FFFF0), UIntEncoder),
          Field("my_field", <<0, 1>>, Some(\b00111000), UIntEncoder),
          FieldInit("", <<0, 1>>, Some(\h0FF0), UIntEncoder, FALSE, "little").val,
          Field("", <<0>>, None, UIntEncoder),
          Field("", <<0, 1>>, None, UIntEncoder)}

ByteSample == {\h00, \h0F, \h3C, \hF0, \hFF}

\* the raw byte strings of a field's byte span: every byte for one-byte
\* fields, ByteSample bytes for longer ones
RawBytes(field) ==
    IF n_bytes(field) = 1 THEN {<<b>> : b \in 0..255}
    ELSE IF n_bytes(field) = 2 THEN {<<a, b>> : a \in ByteSample, b \in ByteSample}
    ELSE {<<a, b, c>> : a \in ByteSample, b \in ByteSample, c \in ByteSample}

\* a field and a raw byte string of its byte span
MaskInput(x) ==
    \E f \in MaskFields : \E r \in RawBytes(f) : x = [fn |-> "mask", field |-> f, raw |-> r]

\* test_Register__field_values_to_raw_bytes__two_fields_in_one_byte
my_register ==
    Register("my_register", \hFF,
             <<Field("f1", <<0>>, Some(\hF0), UIntEncoder),
               Field("f2", <<0>>, Some(\h0F), UIntEncoder)>>,
             8, FALSE, FALSE)

\* the register of test_Register__field_values_to_raw_bytes__two_fields_in_separate_bytes
separate_bytes_register ==
    Register("my_register", \hFF,
             <<Field("f1", <<0>>, None, UIntEncoder), Field("f2", <<1>>, None, UIntEncoder)>>,
             8, FALSE, FALSE)

\* a register whose fields leave byte 1 unused
gap_register ==
    Register("gap", \hFF,
             <<Field("f1", <<0>>, None, UIntEncoder), Field("f3", <<2, 3>>, None, UIntEncoder),
               Field("f4", <<4>>, Some(\hF0), UIntEncoder),
               Field("f5", <<4>>, Some(\h0F), UIntEncoder)>>,
             40, FALSE, FALSE)

\* a register with a one-byte and a two-byte field that both start at byte 0
overlap_register ==
    Register("overlap", \hFF,
             <<Field("lo", <<0>>, None, UIntEncoder), Field("wide", <<0, 1>>, None, UIntEncoder),
               Field("hi", <<2>>, None, UIntEncoder)>>,
             24, FALSE, FALSE)

\* the registers whose fields all share one byte through disjoint masks
MergeRegisters == {"my_register", "ctrl_meas", "config", "meas_mode"}

CodecRegister(name) ==
    CASE name = "my_register" -> my_register
      [] name = "ctrl_meas" -> BMP280_ctrl_meas
      [] name = "config" -> BMP280_config
      [] name = "meas_mode" -> CCS811_meas_mode
      [] name = "separate_bytes" -> separate_bytes_register
      [] name = "gap" -> gap_register
      [] name = "overlap" -> overlap_register
      [] name = "hdc1080.config" -> HDC1080_config
      [] name = "env_data" -> CCS811_env_data

\* the values a field can hold: the keys of its lookup table, or the
\* unsigned integers that fit its mask
FieldValueSeq(field) ==
    IF field.encoder.kind = "LookupTable"
    THEN [k \in 1..Len(field.encoder.lookup_table) |-> field.encoder.lookup_table[k][1]]
    ELSE [k \in 1..(ShiftRight(field.bit_mask[1], field.shift[1]) + 1) |-> k - 1]

Perms(n) == {p \in [1..n -> 1..n] : \A i, j \in 1..n : i # j => p[i] # p[j]}

Permute(items, p) == [i \in 1..Len(items) |-> items[p[i]]]

\* the most values a field of MergeRegisters holds (a four-bit mask)
MaxFieldValues == 16

\* every choice of one value per field of the register, as dict items in
\* the declaration order of the fields
FieldValueItems(reg) ==
    LET N == Len(reg.fields)
        choices == {c \in [1..N -> 1..MaxFieldValues] :
                       \A i \in 1..N : c[i] <= Len(FieldValueSeq(reg.fields[i]))}
    IN  {[i \in 1..N |-> <<reg.fields[i].name, Some(FieldValueSeq(reg.fields[i])[c[i]])>>] :
            c \in choices}

\* a register and one value per field, in any insertion order
MergeInput(x) ==
    \E r \in MergeRegisters :
        \E items \in FieldValueItems(CodecRegister(r)) :
            \E p \in Perms(Len(CodecRegister(r).fields)) :
                x = [fn |-> "merge", reg |-> r, field_values |-> Permute(items, p)]

\* the lookup tables decoded: those of the shipped registers, and one with
\* two keys on one code and one that uses the top bit of a byte
LookupTableNames ==
    {"mode", "osrs", "t_sb", "rh_res_bits", "sample_period", "shared_code", "high_code"}

LookupTableNamed(name) ==
    CASE name = "mode" -> FieldNamed(BMP280_ctrl_meas, "mode").encoder.lookup_table
      [] name = "osrs" -> OversamplingTable
      [] name = "t_sb" -> FieldNamed(BMP280_config, "t_sb").encoder.lookup_table
      [] name = "rh_res_bits" -> FieldNamed(HDC1080_config, "rh_res_bits").encoder.lookup_table
      [] name = "sample_period" -> FieldNamed(CCS811_meas_mode, "sample_period").encoder.lookup_table
      [] name = "shared_code" -> <<<<"a", 0>>, <<"b", 0>>, <<"c", 1>>>>
      [] name = "high_code" -> <<<<"off", 0>>, <<"on", \h80>>>>

\* the fields a table is decoded for: one byte, and two little-endian bytes
LookupFields(name) ==
    {Field("", <<0>>, None, LookupTable(LookupTableNamed(name))),
     FieldInit("", <<0, 1>>, None, LookupTable(LookupTableNamed(name)), FALSE, "little").val}

\* a lookup table, a field and the raw bytes handed to LookupTable.decode
LookupDecodeInput(x) ==
    \E name \in LookupTableNames : \E f \in LookupFields(name) : \E r \in RawBytes(f) :
        x = [fn |-> "lookup_decode", table |-> name, field |-> f, raw |-> r]

\* the largest bit mask a Field is constructed with
MaxBitMask == 1023

\* the arguments of Field(name, byte_index, bit_mask)
FieldInitInput(x) ==
    \E bi \in {<<0>>, <<0, 1>>} : \E m \in {None} \cup {Some(k) : k \in 0..MaxBitMask} :
        x = [fn |-> "field_init", byte_index |-> bi, bit_mask |-> m]

\* fields and registers to construct descriptors from, some sharing a name
FieldPool ==
    {Field("a", <<0>>, None, UIntEncoder), Field("a", <<0>>, Some(\h0F), UIntEncoder),
     Field("b", <<1>>, None, UIntEncoder)}

RegisterPool ==
    {Register("r", 0, <<Field("a", <<0>>, None, UIntEncoder)>>, 8, FALSE, FALSE),
     Register("r", 1, <<Field("b", <<0>>, None, UIntEncoder)>>, 8, FALSE, FALSE),
     Register("s", 2, <<Field("c", <<0>>, None, UIntEncoder)>>, 8, FALSE, FALSE)}

\* one or two elements of a pool, in order
ShortSeqs(pool) == {<<x>> : x \in pool} \cup {<<x, y>> : x \in pool, y \in pool}

\* the arguments of Register("reg", 0, fields)
RegisterInitInput(x) ==
    \E fs \in ShortSeqs(FieldPool) : x = [fn |-> "register_init", fields |-> fs]

\* the arguments of Device("dev", 1, i2c_addresses, registers); the address
\* map is a sequence of <<pin level, address>> pairs
DeviceInitInput(x) ==
    \E rs \in ShortSeqs(RegisterPool) : \E am \in {<<>>, <<<<0, \h76>>, <<1, \h77>>>>} :
        x = [fn |-> "device_init", registers |-> rs, i2c_addresses |-> am]

\* TRUE when two elements of the sequence have the same name
DuplicateNames(s) == \E i, j \in 1..Len(s) : i # j /\ s[i].name = s[j].name

\* the one-byte integer fields encode every value of -MaxEncodeValue..MaxEncodeValue
MaxEncodeValue == 300

\* integer fields of one and two bytes, both byte orders, with and without mask
IntFields ==
    {FieldInit("f", bi, m, e, FALSE, bo).val :
        bi \in {<<0>>}, m \in {None, Some(\hF0), Some(\h0F), Some(\b00011100)},
        e \in {UIntEncoder, SIntEncoder}, bo \in {"big", "little"}}
    \cup
    {FieldInit("f", bi, m, e, FALSE, bo).val :
        bi \in {<<0, 1>>, <<2, 3>>}, m \in {None, Some(\h0FF0)},
        e \in {UIntEncoder, SIntEncoder}, bo \in {"big", "little"}}

\* the integers encoded into a field: all small ones, and for two bytes the
\* neighbourhood of every range limit
IntValues(field) ==
    (-MaxEncodeValue..MaxEncodeValue)
    \cup (IF n_bytes(field) = 1 THEN {}
          ELSE {-32769, -32768, -32767, 4095, 4096, 32767, 32768, 65535, 65536})

\* a field and a value handed to its encode
IntEncodeInput(x) ==
    \E f \in IntFields : \E v \in IntValues(f) :
        x = [fn |-> "encode", field |-> f, value |-> Some(v)]

\* a lookup field and one of the keys of its table
LookupEncodeInput(x) ==
    \E name \in LookupTableNames : \E f \in LookupFields(name) :
        \E i \in 1..Len(LookupTableNamed(name)) :
            x = [fn |-> "encode", field |-> f, value |-> Some(LookupTableNamed(name)[i][1])]

\* fixed-point values are taken this many 1/1024 steps either side of a centre
FixedPointSpan == 600

Around(centre) == (centre - FixedPointSpan)..(centre + FixedPointSpan)

\* humidities and temperatures in 1/1024 units: around zero, mid-range and
\* both ends of what two bytes hold
FixedPointValues(kind) ==
    IF kind = "HumidityFixedPoint"
    THEN Around(0) \cup Around(50 * 1024) \cup Around(2 * 65535)
    ELSE Around(-25 * 1024) \cup Around(0) \cup Around(2 * 65535 - 25 * 1024)

\* an env_data field and a value handed to its encoder
FixedPointEncodeInput(x) ==
    \E f \in {FieldNamed(CCS811_env_data, "humidity"),
               FieldNamed(CCS811_env_data, "temperature")} :
        \E v \in FixedPointValues(f.encoder.kind) :
            x = [fn |-> "encode", field |-> f, value |-> Some(v)]

\* an env_data field and two raw bytes handed to its encoder's decode
FixedPointDecodeInput(x) ==
    \E f \in {FieldNamed(CCS811_env_data, "humidity"),
               FieldNamed(CCS811_env_data, "temperature")} :
        \E hi \in 0..255 : \E lo \in ByteSample :
            x = [fn |-> "decode", field |-> f, raw |-> <<hi, lo>>]

\* the measurement fields the devices only report
MeasurementFields ==
    {FieldNamed(CCS811_raw_data, "current_uA"), FieldNamed(CCS811_raw_data, "voltage"),
     FieldNamed(HDC1080_data, "temperature"), FieldNamed(HDC1080_data, "humidity")}

\* a measurement field and a value handed to its encode
MeasurementEncodeInput(x) ==
    \E f \in MeasurementFields : \E v \in -MaxEncodeValue..MaxEncodeValue :
        x = [fn |-> "encode", field |-> f, value |-> Some(v)]

\* the registers whose fields lie in several bytes
JoinRegisters == {"separate_bytes", "gap", "overlap", "hdc1080.config", "env_data"}

\* at most this many fields are supplied at once
MaxJoinFields == 3

\* two values a field encodes without error: the ends of its range
FieldEndValues(field) ==
    IF field.encoder.kind = "LookupTable"
    THEN <<field.encoder.lookup_table[1][1],
           field.encoder.lookup_table[Len(field.encoder.lookup_table)][1]>>
    ELSE IF field.bit_mask # None THEN <<0, ShiftRight(field.bit_mask[1], field.shift[1])>>
    ELSE IF field.encoder.kind = "UIntEncoder" THEN <<0, 2 ^ (8 * n_bytes(field)) - 1>>
    ELSE <<0, 25 * 1024>>

\* a register and values for some of its fields, in any insertion order
JoinInput(x) ==
    \E r \in JoinRegisters :
        \E n \in 1..MaxJoinFields :
            \E p \in [1..n -> 1..Len(CodecRegister(r).fields)] :
                /\ \A i, j \in 1..n : i # j => p[i] # p[j]
                /\ \E v \in [1..n -> 1..2] :
                      x = [fn |-> "join", reg |-> r,
                           field_values |->
                               [i \in 1..n |->
                                   <<CodecRegister(r).fields[p[i]].name,
                                     Some(FieldEndValues(CodecRegister(r).fields[p[i]])[v[i]])>>]]

CodecInit ==
    /\ api = "none"
    /\ cached = <<>>
    /\ sibling = <<>>
    /\ regs = <<>>
    /\ pc = "idle"
    /\ call = NoCall
    /\ \/ MaskInput(input)
       \/ MergeInput(input)
       \/ LookupDecodeInput(input)
       \/ FieldInitInput(input)
       \/ RegisterInitInput(input)
       \/ DeviceInitInput(input)
       \/ IntEncodeInput(input)
       \/ LookupEncodeInput(input)
       \/ FixedPointEncodeInput(input)
       \/ FixedPointDecodeInput(input)
       \/ MeasurementEncodeInput(input)
       \/ JoinInput(input)
    /\ output = NoCodec
    /\ mode = None
    /\ serial = <<>>

\* field._encode_mask(field._decode_mask(raw))
ApplyMask ==
    /\ input.fn = "mask"
    /\ output.fn = "none"
    /\ LET decoded == decode_mask(input.field, input.raw)
       IN  output' = [fn |-> "mask", decoded |-> decoded,
                      encoded |-> IF IsOk(decoded) THEN encode_mask(input.field, decoded.val)
                                  ELSE decoded]
    /\ UNCHANGED <<api, cached, sibling, regs, pc, call, input, mode, serial>>

\* reg._field_values_to_raw_bytes(field_values)
ApplyMerge ==
    /\ input.fn \in {"merge", "join"}
    /\ output.fn = "none"
    /\ output' = [fn |-> input.fn,
                  bytes |-> field_values_to_raw_bytes(CodecRegister(input.reg),
                                                      input.field_values)]
    /\ UNCHANGED <<api, cached, sibling, regs, pc, call, input, mode, serial>>

\* LookupTable(table).decode(raw, field)
ApplyLookupDecode ==
    /\ input.fn = "lookup_decode"
    /\ output.fn = "none"
    /\ output' = [fn |-> "lookup_decode",
                  val |-> LookupTable_decode(LookupTableNamed(input.table), input.raw,
                                             input.field)]
    /\ UNCHANGED <<api, cached, sibling, regs, pc, call, input, mode, serial>>

\* Field("f", byte_index, bit_mask)
ApplyFieldInit ==
    /\ input.fn = "field_init"
    /\ output.fn = "none"
    /\ output' = [fn |-> "field_init",
                  val |-> FieldInit("f", input.byte_index, input.bit_mask, UIntEncoder,
                                    FALSE, "big")]
    /\ UNCHANGED <<api, cached, sibling, regs, pc, call, input, mode, serial>>

\* Register("reg", 0, fields): the constructor has no failing path
ApplyRegisterInit ==
    /\ input.fn = "register_init"
    /\ output.fn = "none"
    /\ output' = [fn |-> "register_init",
                  val |-> Ok(Register("reg", 0, input.fields, 8, FALSE, FALSE))]
    /\ UNCHANGED <<api, cached, sibling, regs, pc, call, input, mode, serial>>

\* Device("dev", 1, i2c_addresses, registers): the constructor has no failing path
ApplyDeviceInit ==
    /\ input.fn = "device_init"
    /\ output.fn = "none"
    /\ output' = [fn |-> "device_init",
                  val |-> Ok(Device("dev", 1, input.i2c_addresses, input.registers, "big"))]
    /\ UNCHANGED <<api, cached, sibling, regs, pc, call, input, mode, serial>>

\* field.encoder.encode(value, field) and field.encode(value)
ApplyEncode ==
    /\ input.fn = "encode"
    /\ output.fn = "none"
    /\ output' = [fn |-> "encode",
                  val |-> Encoder_encode(input.field.encoder, input.value, input.field),
                  masked |-> Field_encode(input.field, input.value)]
    /\ UNCHANGED <<api, cached, sibling, regs, pc, call, input, mode, serial>>

\* encoder.decode(encoder.encode(value, field), field)
ApplyRoundTrip ==
    /\ input.fn = "encode"
    /\ output.fn = "none"
    /\ \E enc \in {Encoder_encode(input.field.encoder, input.value, input.field)} :
          output' = [fn |-> "round_trip",
                     val |-> IF IsOk(enc)
                             THEN Encoder_decode(input.field.encoder, enc.val, input.field)
                             ELSE enc]
    /\ UNCHANGED <<api, cached, sibling, regs, pc, call, input, mode, serial>>

\* field.encoder.decode(raw, field)
ApplyDecode ==
    /\ input.fn = "decode"
    /\ output.fn = "none"
    /\ output' = [fn |-> "decode",
                  val |-> Encoder_decode(input.field.encoder, input.raw, input.field)]
    /\ UNCHANGED <<api, cached, sibling, regs, pc, call, input, mode, serial>>

CodecNext ==
    \/ ApplyMask
    \/ ApplyMerge
    \/ ApplyLookupDecode
    \/ ApplyFieldInit
    \/ ApplyRegisterInit
    \/ ApplyDeviceInit
    \/ ApplyEncode
    \/ ApplyRoundTrip
    \/ ApplyDecode

CodecSpec == CodecInit /\ [][CodecNext]_vars

(***************************************************************************)
(* The PMS7003 particulate matter sensor on a serial port.                 *)
(*   mode    PMS7003.mode: 0 active, 1 passive, 2 sleep, as an option      *)
(*   cached  PMS7003._cached                                               *)
(*   serial  the calls the latest method made on the serial port, in order *)
(*   call    the latest method called and what it raised                   *)
(*   pc      "retry" while io_safe_retries waits before its next try       *)
(*   input   the kind of port: a pyserial Serial or the MockSerial of      *)
(*           pms7003.py, which has no read_until                           *)
(* The bytes the port returns are chosen by the environment at each call.  *)
(***************************************************************************)
PMS7003_start_bytes == <<\h42, \h4D>>

PMS7003_fields ==
    <<"frame_length", "pm1_0", "pm2_5", "pm10_0", "pm1_0_atm", "pm2_5_atm", "pm10_0_atm",
      "count_0_3", "count_0_5", "count_1_0", "count_2_5", "count_5_0", "count_10_0",
      "version", "error", "checksum">>

PMS7003_modes == [active |-> Some(0), passive |-> Some(1), sleep |-> Some(2), unknown |-> None]

RECURSIVE SumBytes(_)
SumBytes(b) == IF Len(b) = 0 THEN 0 ELSE Head(b) + SumBytes(Tail(b))

\* struct.unpack(">HHHHHHHHHHHHHBBH", frame) of a 30-byte frame
struct_unpack(frame) ==
    [i \in 1..16 |->
        IF i <= 13 THEN 256 * frame[2 * i - 1] + frame[2 * i]
        ELSE IF i = 14 THEN frame[27]
        ELSE IF i = 15 THEN frame[28]
        ELSE 256 * frame[29] + frame[30]]

\* struct.pack(">HHHHHHHHHHHHHBBH", *values) for values in range
struct_pack(values) ==
    [k \in 1..30 |->
        IF k <= 26 THEN (IF k % 2 = 1 THEN values[(k + 1) \div 2] \div 256
                        ELSE values[k \div 2] % 256)
        ELSE IF k = 27 THEN values[14]
        ELSE IF k = 28 THEN values[15]
        ELSE IF k = 29 THEN values[16] \div 256
        ELSE values[16] % 256]

\* a parser that takes the frame's own checksum for granted
PMS7003_parse_frame_unchecked(frame) ==
    IF Len(frame) # 30 THEN Raise("ValueError")
    ELSE Ok([n \in {PMS7003_fields[i] : i \in 1..15} |->
                struct_unpack(frame)[CHOOSE i \in 1..15 : PMS7003_fields[i] = n]])

\* PMS7003._parse_frame(frame); IOError is Python's OSError
PMS7003_parse_frame(frame) ==
    IF Len(frame) # 30 THEN Raise("ValueError")
    ELSE LET checksum == SumBytes(SubSeq(frame, 1, 28)) + SumBytes(PMS7003_start_bytes)
             parsed == struct_unpack(frame)
         IN  IF checksum # parsed[16] THEN Raise("OSError")
             ELSE Ok([n \in {PMS7003_fields[i] : i \in 1..15} |->
                         parsed[CHOOSE i \in 1..15 : PMS7003_fields[i] = n]])

\* the field values of the frames the sensor sends: those of the test
\* fixture, and two other readings
FrameValues ==
    {<<28, 0, 1, 2, 3, 4, 5, 6, 7, 8, 9, 10, 11, 12, 13>>,
     <<28, 258, 1, 2, 3, 4, 5, 6, 7, 8, 9, 10, 11, 12, 13>>,
     <<28, 0, 770, 2, 3, 4, 5, 6, 7, 8, 9, 10, 11, 12, 0>>,
     <<28, 65535, 65535, 65535, 3, 4, 5, 6, 7, 8, 9, 10, 11, 255, 1>>}

\* the checksum the sensor appends to the field values
FrameChecksum(values) ==
    SumBytes(SubSeq(struct_pack(values \o <<0>>), 1, 28)) + SumBytes(PMS7003_start_bytes)

\* the 30-byte frames on the wire: sound, and with a damaged checksum
Frames ==
    UNION {{struct_pack(v \o <<c>>) :
                c \in {FrameChecksum(v), FrameChecksum(v) + 1, 65535}} : v \in FrameValues}

\* what self._ser.read(n) returns: a whole frame, one cut short by the
\* timeout, or nothing
TimedOut(frame) == {frame, SubSeq(frame, 1, Len(frame) - 1), <<>>}

\* frame is what the call handed to _parse_frame, if it came that far;
\* invocations counts the calls io_safe_retries has made of the method, and
\* reset tells that it gave up and reset the cache
PmsCall(op, err, frame) ==
    [op |-> op, err |-> err, frame |-> frame, wrapped |-> FALSE, invocations |-> 1,
     reset |-> FALSE]

\* PMS7003(serial_dev): flushInput, wake, set_host_sync
PmsInit ==
    /\ api = "pms7003"
    /\ cached = [n \in {PMS7003_fields[i] : i \in 1..15} |-> 0]
    /\ sibling = <<>>
    /\ regs = <<>>
    /\ pc = "idle"
    /\ call = PmsCall("__init__", "none", <<>>)
    /\ input \in {[fn |-> "pms7003", port |-> p] : p \in {"Serial", "MockSerial"}}
    /\ output = NoCodec
    /\ mode = PMS7003_modes.passive
    /\ serial = <<"flushInput", "write wake", "write set_host_sync">>

\* a read() that asks the sensor for a frame whatever the mode
PMS7003_read_any_mode(response) ==
    /\ api = "pms7003"
    /\ pc = "idle"
    /\ \E parsed \in {PMS7003_parse_frame(SubSeq(response, 3, Len(response)))} :
          /\ call' = PmsCall("read", parsed.err, SubSeq(response, 3, Len(response)))
          /\ serial' = <<"flushInput", "write take_measurement", "read">>
          /\ cached' = IF IsOk(parsed) THEN parsed.val ELSE cached
    /\ UNCHANGED <<api, sibling, regs, pc, input, output, mode>>

\* PMS7003.read(); response is what self._ser.read(32) returns
PMS7003_read(response) ==
    /\ api = "pms7003"
    /\ pc = "idle"
    /\ IF mode # PMS7003_modes.passive
       THEN /\ call' = PmsCall("read", "ValueError", <<>>)
            /\ serial' = <<>>
            /\ cached' = cached
       ELSE \E parsed \in {PMS7003_parse_frame(SubSeq(response, 3, Len(response)))} :
               /\ call' = PmsCall("read", parsed.err, SubSeq(response, 3, Len(response)))
               /\ serial' = <<"flushInput", "write take_measurement", "read">>
               /\ cached' = IF IsOk(parsed) THEN parsed.val ELSE cached
    /\ UNCHANGED <<api, sibling, regs, pc, input, output, mode>>

\* PMS7003.listen(); short is the number of frames cut short that the loop
\* skips before frame, the first of 30 bytes
PMS7003_listen(short, frame) ==
    /\ api = "pms7003"
    /\ pc = "idle"
    /\ IF mode # PMS7003_modes.active
       THEN /\ call' = PmsCall("listen", "ValueError", <<>>)
            /\ serial' = <<>>
            /\ cached' = cached
       ELSE IF input.port = "MockSerial"
       THEN /\ call' = PmsCall("listen", "AttributeError", <<>>)
            /\ serial' = <<>>
            /\ cached' = cached
       ELSE \E parsed \in {PMS7003_parse_frame(frame)} :
               /\ call' = PmsCall("listen", parsed.err, frame)
               /\ serial' = [i \in 1..(2 * short + 2) |->
                                IF i % 2 = 1 THEN "read_until" ELSE "read"]
               /\ cached' = IF IsOk(parsed) THEN parsed.val ELSE cached
    /\ UNCHANGED <<api, sibling, regs, pc, input, output, mode>>

\* PMS7003.sleep(): the command is written and the mode recorded
PMS7003_sleep ==
    /\ api = "pms7003"
    /\ pc = "idle"
    /\ call' = PmsCall("sleep", "none", <<>>)
    /\ serial' = <<"write sleep">>
    /\ mode' = PMS7003_modes.sleep
    /\ UNCHANGED <<api, cached, sibling, regs, pc, input, output>>

\* PMS7003.wake(): the sensor wakes in passive mode
PMS7003_wake ==
    /\ api = "pms7003"
    /\ pc = "idle"
    /\ call' = PmsCall("wake", "none", <<>>)
    /\ serial' = <<"write wake">>
    /\ mode' = PMS7003_modes.passive
    /\ UNCHANGED <<api, cached, sibling, regs, pc, input, output>>

\* PMS7003.set_host_sync(): passive mode, the host asks for each frame
PMS7003_set_host_sync ==
    /\ api = "pms7003"
    /\ pc = "idle"
    /\ call' = PmsCall("set_host_sync", "none", <<>>)
    /\ serial' = <<"write set_host_sync">>
    /\ mode' = PMS7003_modes.passive
    /\ UNCHANGED <<api, cached, sibling, regs, pc, input, output>>

\* PMS7003.set_device_sync(): active mode, the sensor sends frames unasked
PMS7003_set_device_sync ==
    /\ api = "pms7003"
    /\ pc = "idle"
    /\ call' = PmsCall("set_device_sync", "none", <<>>)
    /\ serial' = <<"write set_device_sync">>
    /\ mode' = PMS7003_modes.active
    /\ UNCHANGED <<api, cached, sibling, regs, pc, input, output>>

\* io_safe_retries(pms7003.read): one call of read() by the wrapper, the
\* first when the wrapper is entered and the later ones after its
\* sleep(0.001).  An IOError is swallowed; it leads to the next try, or to
\* reset_cache(pms7003) once the retries are spent.  A ValueError leaves
\* the wrapper.
PmsSafeRead(invocations, response) ==
    \E parsed \in {IF mode # PMS7003_modes.passive THEN Raise("ValueError")
                    ELSE PMS7003_parse_frame(SubSeq(response, 3, Len(response)))} :
       \E exhausted \in {parsed.err = "OSError" /\ invocations = 1 + Retries} :
          /\ call' = [PmsCall("read", parsed.err,
                              IF mode # PMS7003_modes.passive THEN <<>>
                              ELSE SubSeq(response, 3, Len(response))) EXCEPT
                            !.wrapped = TRUE, !.invocations = invocations,
                            !.reset = exhausted]
          /\ serial' = IF mode # PMS7003_modes.passive THEN <<>>
                        ELSE <<"flushInput", "write take_measurement", "read">>
          /\ cached' = IF IsOk(parsed) THEN parsed.val
                        ELSE IF exhausted THEN reset_cache(cached)
                        ELSE cached
          /\ pc' = IF parsed.err = "OSError" /\ ~exhausted THEN "retry" ELSE "idle"
          /\ UNCHANGED <<api, sibling, regs, input, output, mode>>

\* io_safe_retries(pms7003.read) up to its return or to its first sleep
PMS7003_safe_read(response) ==
    /\ api = "pms7003"
    /\ pc = "idle"
    /\ PmsSafeRead(1, response)

\* io_safe_retries(pms7003.read) after a sleep(0.001): the next try
PMS7003_retry_read(response) ==
    /\ api = "pms7003"
    /\ pc = "retry"
    /\ PmsSafeRead(call.invocations + 1, response)

\* listen() skips at most this many frames cut short
MaxShortFrames == 1

PmsNext ==
    \/ \E f \in Frames : \E r \in TimedOut(PMS7003_start_bytes \o f) : PMS7003_read(r)
    \/ \E short \in 0..MaxShortFrames : \E f \in Frames : PMS7003_listen(short, f)
    \/ PMS7003_sleep
    \/ PMS7003_wake
    \/ PMS7003_set_host_sync
    \/ PMS7003_set_device_sync
    \/ \E f \in Frames : \E r \in TimedOut(PMS7003_start_bytes \o f) : PMS7003_safe_read(r)
    \/ \E f \in Frames : \E r \in TimedOut(PMS7003_start_bytes \o f) : PMS7003_retry_read(r)

PmsSpec == PmsInit /\ [][PmsNext]_vars

(***************************************************************************)
(* The Senseair S8 CO2 sensor on a Modbus serial line.                     *)
(*   cached  SenseairS8._cached                                            *)
(*   serial  the calls the latest method made on the serial port, in       *)
(*           order, each with the bytes written or read                    *)
(*   call    the latest method called, its arguments and what it raised    *)
(*   pc      where the call in progress waits: in configure_abc after      *)
(*           clear_ack or force_abc, or in io_safe_retries before a retry  *)
(* The bytes the port returns are chosen by the environment at each call.  *)
(***************************************************************************)
\* a ^ b for a, b >= 0
BitXor(a, b) == BitOr(a, b) - BitAnd(a, b)

\* ModbusCRC._table
ModbusCRC_table ==
    <<
      \h0000, \hC0C1, \hC181, \h0140, \hC301, \h03C0, \h0280, \hC241,
      \hC601, \h06C0, \h0780, \hC741, \h0500, \hC5C1, \hC481, \h0440,
      \hCC01, \h0CC0, \h0D80, \hCD41, \h0F00, \hCFC1, \hCE81, \h0E40,
      \h0A00, \hCAC1, \hCB81, \h0B40, \hC901, \h09C0, \h0880, \hC841,
      \hD801, \h18C0, \h1980, \hD941, \h1B00, \hDBC1, \hDA81, \h1A40,
      \h1E00, \hDEC1, \hDF81, \h1F40, \hDD01, \h1DC0, \h1C80, \hDC41,
      \h1400, \hD4C1, \hD581, \h1540, \hD701, \h17C0, \h1680, \hD641,
      \hD201, \h12C0, \h1380, \hD341, \h1100, \hD1C1, \hD081, \h1040,
      \hF001, \h30C0, \h3180, \hF141, \h3300, \hF3C1, \hF281, \h3240,
      \h3600, \hF6C1, \hF781, \h3740, \hF501, \h35C0, \h3480, \hF441,
      \h3C00, \hFCC1, \hFD81, \h3D40, \hFF01, \h3FC0, \h3E80, \hFE41,
      \hFA01, \h3AC0, \h3B80, \hFB41, \h3900, \hF9C1, \hF881, \h3840,
      \h2800, \hE8C1, \hE981, \h2940, \hEB01, \h2BC0, \h2A80, \hEA41,
      \hEE01, \h2EC0, \h2F80, \hEF41, \h2D00, \hEDC1, \hEC81, \h2C40,
      \hE401, \h24C0, \h2580, \hE541, \h2700, \hE7C1, \hE681, \h2640,
      \h2200, \hE2C1, \hE381, \h2340, \hE101, \h21C0, \h2080, \hE041,
      \hA001, \h60C0, \h6180, \hA141, \h6300, \hA3C1, \hA281, \h6240,
      \h6600, \hA6C1, \hA781, \h6740, \hA501, \h65C0, \h6480, \hA441,
      \h6C00, \hACC1, \hAD81, \h6D40, \hAF01, \h6FC0, \h6E80, \hAE41,
      \hAA01, \h6AC0, \h6B80, \hAB41, \h6900, \hA9C1, \hA881, \h6840,
      \h7800, \hB8C1, \hB981, \h7940, \hBB01, \h7BC0, \h7A80, \hBA41,
      \hBE01, \h7EC0, \h7F80, \hBF41, \h7D00, \hBDC1, \hBC81, \h7C40,
      \hB401, \h74C0, \h7580, \hB541, \h7700, \hB7C1, \hB681, \h7640,
      \h7200, \hB2C1, \hB381, \h7340, \hB101, \h71C0, \h7080, \hB041,
      \h5000, \h90C1, \h9181, \h5140, \h9301, \h53C0, \h5280, \h9241,
      \h9601, \h56C0, \h5780, \h9741, \h5500, \h95C1, \h9481, \h5440,
      \h9C01, \h5CC0, \h5D80, \h9D41, \h5F00, \h9FC1, \h9E81, \h5E40,
      \h5A00, \h9AC1, \h9B81, \h5B40, \h9901, \h59C0, \h5880, \h9841,
      \h8801, \h48C0, \h4980, \h8941, \h4B00, \h8BC1, \h8A81, \h4A40,
      \h4E00, \h8EC1, \h8F81, \h4F40, \h8D01, \h4DC0, \h4C80, \h8C41,
      \h4400, \h84C1, \h8581, \h4540, \h8701, \h47C0, \h4680, \h8641,
      \h8201, \h42C0, \h4380, \h8341, \h4100, \h81C1, \h8081, \h4040
    >>

RECURSIVE ModbusCRC_fold(_, _)
ModbusCRC_fold(crc, message) ==
    IF Len(message) = 0 THEN crc
    ELSE ModbusCRC_fold(
            BitXor(ShiftRight(crc, 8),
                   ModbusCRC_table[BitAnd(BitXor(crc, Head(message)), \hFF) + 1]),
            Tail(message))

\* ModbusCRC.calc(message): the CRC16, low byte first
ModbusCRC_calc(message) ==
    CHOOSE r \in {<<crc % 256, crc \div 256>> : crc \in {ModbusCRC_fold(\hFFFF, message)}} : TRUE

\* ModbusCRC.check(message)
ModbusCRC_check(message) ==
    IF Len(message) < 2 THEN FALSE
    ELSE SubSeq(message, Len(message) - 1, Len(message))
            = ModbusCRC_calc(SubSeq(message, 1, Len(message) - 2))

\* SenseairS8._commands
S8_commands ==
    [co2 |-> <<\hFE, \h04, \h00, \h03, \h00, \h01, \hD5, \hC5>>,
     type_id |-> <<\hFE, \h04, \h00, \h19, \h00, \h02, \hB4, \h03>>,
     fw_ver |-> <<\hFE, \h04, \h00, \h1C, \h00, \h01, \hE4, \h03>>,
     serial_id |-> <<\hFE, \h04, \h00, \h1D, \h00, \h02, \hF5, \hC2>>,
     error_code |-> <<\hFE, \h04, \h00, \h00, \h00, \h01, \h25, \hC5>>,
     abc_period |-> <<\hFE, \h03, \h00, \h1F, \h00, \h01, \hA1, \hC3>>,
     clear_ack |-> <<\hFE, \h06, \h00, \h00, \h00, \h00, \h9D, \hC5>>,
     read_ack |-> <<\hFE, \h03, \h00, \h00, \h00, \h01, \h90, \h05>>,
     force_abc |-> <<\hFE, \h06, \h00, \h01, \h7C, \h06, \h6C, \hC7>>,
     disable_abc |-> <<\hFE, \h06, \h00, \h1F, \h00, \h00, \hAC, \h03>>]

PortCall(op, data) == [op |-> op, data |-> data]

\* SenseairS8._serial_read(command, n_bytes): the port calls it makes and
\* what it returns or raises, the port answering with response
SenseairS8_serial_read(command, response) ==
    [log |-> <<PortCall("flushInput", <<>>), PortCall("write", command),
               PortCall("read", response)>>,
     res |-> IF ModbusCRC_check(response) THEN Ok(response) ELSE Raise("OSError")]

\* SenseairS8._serial_write(message, append_crc=True)
SenseairS8_serial_write_crc(message) == PortCall("write", message \o ModbusCRC_calc(message))

S8Result(err, log, abc_period) == [err |-> err, log |-> log, abc_period |-> abc_period]

\* a recalibration that starts the calibration before it clears the
\* acknowledgement register
S8_recalibrate_force_first(step) ==
    IF step = 1 THEN S8_commands.force_abc ELSE S8_commands.clear_ack

\* the commands the recalibration of configure_abc writes, a wait after each
S8_recalibrate(step) ==
    IF step = 1 THEN S8_commands.clear_ack ELSE S8_commands.force_abc

\* SenseairS8.configure_abc(period_hours, disable, recalibrate) up to its
\* return or to its first wait: what it raised ("pending" when it waits),
\* the port calls it made and the abc_period it leaves cached
SenseairS8_configure_abc(abc_period, period_hours, disable, recalibrate) ==
    IF disable = 1
    THEN S8Result("none", <<PortCall("write", S8_commands.disable_abc)>>, abc_period)
    ELSE IF period_hours # None
    THEN LET value == int_to_bytes(period_hours[1], 2, "big", FALSE)
         IN  IF ~IsOk(value) THEN S8Result(value.err, <<>>, abc_period)
             ELSE LET log == <<SenseairS8_serial_write_crc(<<\hFE, \h06, \h00, \h1F>> \o value.val)>>
                  IN  IF recalibrate = 1
                      THEN S8Result("pending", log \o <<PortCall("write", S8_recalibrate(1))>>,
                                    period_hours)
                      ELSE S8Result("none", log, period_hours)
    ELSE IF recalibrate = 1
    THEN S8Result("pending", <<PortCall("write", S8_recalibrate(1))>>, abc_period)
    ELSE S8Result("none", <<>>, abc_period)

\* the end of configure_abc's recalibration: the acknowledgement register is
\* read and its bit 5 tested
SenseairS8_read_ack(response) ==
    LET read == SenseairS8_serial_read(S8_commands.read_ack, response)
    IN  [log |-> read.log,
         err |-> IF ~IsOk(read.res) THEN read.res.err
                 ELSE IF BitAnd(ShiftLeft(1, 5),
                                int_from_bytes(PySlice(read.res.val, 3, 5), "big", FALSE)) = 0
                      THEN "S8Error"
                      ELSE "none"]

\* SenseairS8._read_register(cmd_name, n_bytes, integer): val is what it
\* stores in self._cached[cmd_name], the port answering with response
SenseairS8_read_register(cmd_name, n_bytes_, integer, response) ==
    LET read == SenseairS8_serial_read(S8_commands[cmd_name], response)
        length == n_bytes_ - 5
    IN  IF ~IsOk(read.res) THEN [err |-> read.res.err, log |-> read.log, val |-> None]
        ELSE [err |-> "none", log |-> read.log,
              val |-> IF integer
                      THEN Some(int_from_bytes(PySlice(read.res.val, 3, 3 + length),
                                               "big", FALSE))
                      ELSE Some(PySlice(read.res.val, 3, 3 + length))]

\* the register values the sensor answers with
S8Values == {\h0000, \h0020, \h0040, \hFFDF}

\* a 7-byte answer of the sensor carrying value, with its CRC
S8Answer(value) ==
    CHOOSE r \in {body \o ModbusCRC_calc(body) :
                    body \in {<<\hFE, \h03, \h02, value \div 256, value % 256>>}} : TRUE

\* what self._ser.read(7) returns: a sound answer, one with a damaged CRC,
\* one cut short by the timeout, or nothing
S8Responses ==
    UNION {{S8Answer(v), [S8Answer(v) EXCEPT ![7] = 255 - @], SubSeq(S8Answer(v), 1, 6)} :
              v \in S8Values}
        \cup {<<>>, <<\hFF, \hFF>>}

\* a 9-byte answer of the sensor carrying four bytes, with its CRC
S8LongAnswer(value) ==
    CHOOSE r \in {body \o ModbusCRC_calc(body) :
                    body \in {<<\hFE, \h04, \h04>> \o value}} : TRUE

\* what self._ser.read(7) returns to the read methods: a sound answer, one
\* with a damaged CRC, or nothing
S8RegisterResponses ==
    {S8Answer(\h0020), [S8Answer(\h0020) EXCEPT ![7] = 255 - @], <<>>}

\* what self._ser.read(9) returns to the reads of the type and serial ids:
\* a sound answer, one with a damaged CRC, or one cut short by the timeout
S8LongResponses ==
    {S8LongAnswer(<<\h00, \h01, \h0C, \h3A>>),
     [S8LongAnswer(<<\h00, \h01, \h0C, \h3A>>) EXCEPT ![9] = 255 - @],
     SubSeq(S8LongAnswer(<<\h00, \h01, \h0C, \h3A>>), 1, 8)}

\* the period_hours arguments
S8Periods == {None, Some(5), Some(180), Some(65536)}

\* invocations counts the calls io_safe_retries has made of the method, and
\* reset tells that it gave up and reset the cache
S8Call(op, args, err) ==
    [op |-> op, args |-> args, err |-> err, wrapped |-> FALSE, invocations |-> 1,
     reset |-> FALSE]

\* SenseairS8(serial_dev)
S8Init ==
    /\ api = "s8"
    /\ cached = [co2 |-> None, type_id |-> None, fw_ver |-> None, serial_id |-> None,
                 error_code |-> None, abc_period |-> None]
    /\ sibling = <<>>
    /\ regs = <<>>
    /\ pc = "idle"
    /\ call = S8Call("__init__", <<>>, "none")
    /\ input = NoCodec
    /\ output = NoCodec
    /\ mode = None
    /\ serial = <<PortCall("flushInput", <<>>)>>

\* s8.configure_abc(period_hours, disable, recalibrate), up to its return or
\* to its wait after clear_ack is written
configure_abc(period_hours, disable, recalibrate) ==
    /\ api = "s8"
    /\ pc = "idle"
    /\ \E out \in {SenseairS8_configure_abc(cached.abc_period, period_hours, disable,
                                             recalibrate)} :
          /\ call' = S8Call("configure_abc", <<period_hours, disable, recalibrate>>, out.err)
          /\ serial' = out.log
          /\ cached' = [cached EXCEPT !.abc_period = out.abc_period]
          /\ pc' = IF out.err = "pending" THEN "ack_cleared" ELSE "idle"
    /\ UNCHANGED <<api, sibling, regs, input, output, mode>>

\* configure_abc after its first wait: force_abc is written and the call
\* waits for a measurement cycle
start_calibration ==
    /\ api = "s8"
    /\ pc = "ack_cleared"
    /\ serial' = serial \o <<PortCall("write", S8_recalibrate(2))>>
    /\ pc' = "calibrating"
    /\ UNCHANGED <<api, cached, sibling, regs, call, input, output, mode>>

\* configure_abc after its second wait: the acknowledgement is read and the
\* call returns or raises
read_ack(response) ==
    /\ api = "s8"
    /\ pc = "calibrating"
    /\ \E out \in {SenseairS8_read_ack(response)} :
          /\ call' = [call EXCEPT !.err = out.err]
          /\ serial' = serial \o out.log
    /\ pc' = "idle"
    /\ UNCHANGED <<api, cached, sibling, regs, input, output, mode>>

\* s8.read_co2(): the CO2 concentration, an integer
read_co2(response) ==
    /\ api = "s8"
    /\ pc = "idle"
    /\ \E out \in {SenseairS8_read_register("co2", 7, TRUE, response)} :
          /\ call' = S8Call("read_co2", <<>>, out.err)
          /\ serial' = out.log
          /\ cached' = IF out.err = "none" THEN [cached EXCEPT !.co2 = out.val]
                        ELSE cached
    /\ UNCHANGED <<api, sibling, regs, pc, input, output, mode>>

\* s8.read_type_id(): the model number, four bytes
read_type_id(response) ==
    /\ api = "s8"
    /\ pc = "idle"
    /\ \E out \in {SenseairS8_read_register("type_id", 9, FALSE, response)} :
          /\ call' = S8Call("read_type_id", <<>>, out.err)
          /\ serial' = out.log
          /\ cached' = IF out.err = "none" THEN [cached EXCEPT !.type_id = out.val]
                        ELSE cached
    /\ UNCHANGED <<api, sibling, regs, pc, input, output, mode>>

\* s8.read_serial_id(): the serial number, four bytes
read_serial_id(response) ==
    /\ api = "s8"
    /\ pc = "idle"
    /\ \E out \in {SenseairS8_read_register("serial_id", 9, FALSE, response)} :
          /\ call' = S8Call("read_serial_id", <<>>, out.err)
          /\ serial' = out.log
          /\ cached' = IF out.err = "none" THEN [cached EXCEPT !.serial_id = out.val]
                        ELSE cached
    /\ UNCHANGED <<api, sibling, regs, pc, input, output, mode>>

\* s8.read_firmware_version(): the firmware version, two bytes
read_firmware_version(response) ==
    /\ api = "s8"
    /\ pc = "idle"
    /\ \E out \in {SenseairS8_read_register("fw_ver", 7, FALSE, response)} :
          /\ call' = S8Call("read_firmware_version", <<>>, out.err)
          /\ serial' = out.log
          /\ cached' = IF out.err = "none" THEN [cached EXCEPT !.fw_ver = out.val]
                        ELSE cached
    /\ UNCHANGED <<api, sibling, regs, pc, input, output, mode>>

\* s8.read_error_code(): the error flags, an integer
read_error_code(response) ==
    /\ api = "s8"
    /\ pc = "idle"
    /\ \E out \in {SenseairS8_read_register("error_code", 7, TRUE, response)} :
          /\ call' = S8Call("read_error_code", <<>>, out.err)
          /\ serial' = out.log
          /\ cached' = IF out.err = "none" THEN [cached EXCEPT !.error_code = out.val]
                        ELSE cached
    /\ UNCHANGED <<api, sibling, regs, pc, input, output, mode>>

\* s8.read_abc_period(): the ABC period, an integer
read_abc_period(response) ==
    /\ api = "s8"
    /\ pc = "idle"
    /\ \E out \in {SenseairS8_read_register("abc_period", 7, TRUE, response)} :
          /\ call' = S8Call("read_abc_period", <<>>, out.err)
          /\ serial' = out.log
          /\ cached' = IF out.err = "none" THEN [cached EXCEPT !.abc_period = out.val]
                        ELSE cached
    /\ UNCHANGED <<api, sibling, regs, pc, input, output, mode>>

\* io_safe_retries(s8.read_co2): one call of read_co2 by the wrapper, the
\* first when the wrapper is entered and the later ones after its
\* sleep(0.001). An IOError is swallowed; it leads to the next try, or to
\* reset_cache(s8) once the retries are spent.
S8SafeRead(invocations, response) ==
    \E out \in {SenseairS8_read_register("co2", 7, TRUE, response)} :
       \E exhausted \in {out.err = "OSError" /\ invocations = 1 + Retries} :
          /\ call' = [S8Call("read_co2", <<>>, out.err) EXCEPT
                            !.wrapped = TRUE, !.invocations = invocations,
                            !.reset = exhausted]
          /\ serial' = out.log
          /\ cached' = IF out.err = "none" THEN [cached EXCEPT !.co2 = out.val]
                        ELSE IF exhausted THEN reset_cache(cached)
                        ELSE cached
          /\ pc' = IF out.err = "OSError" /\ ~exhausted THEN "retry" ELSE "idle"
          /\ UNCHANGED <<api, sibling, regs, input, output, mode>>

\* io_safe_retries(s8.read_co2) up to its return or to its first sleep
safe_read_co2(response) ==
    /\ api = "s8"
    /\ pc = "idle"
    /\ S8SafeRead(1, response)

\* io_safe_retries(s8.read_co2) after a sleep(0.001): the next try
retry_read_co2(response) ==
    /\ api = "s8"
    /\ pc = "retry"
    /\ S8SafeRead(call.invocations + 1, response)

S8Next ==
    \/ \E p \in S8Periods, d \in 0..1, r \in 0..1 : configure_abc(p, d, r)
    \/ start_calibration
    \/ \E response \in S8Responses : read_ack(response)
    \/ \E response \in S8RegisterResponses : read_co2(response)
    \/ \E response \in S8LongResponses : read_type_id(response)
    \/ \E response \in S8LongResponses : read_serial_id(response)
    \/ \E response \in S8RegisterResponses : read_firmware_version(response)
    \/ \E response \in S8RegisterResponses : read_error_code(response)
    \/ \E response \in S8RegisterResponses : read_abc_period(response)
    \/ \E response \in S8RegisterResponses : safe_read_co2(response)
    \/ \E response \in S8RegisterResponses : retry_read_co2(response)

S8Spec == S8Init /\ [][S8Next]_vars

(***************************************************************************)
(* The properties.                                                         *)
(***************************************************************************)
\* the two cache states of the register access state machine
Uninitialized(c) == c # <<>> /\ \A k \in DOMAIN c : c[k] = None

IsCached(c) == \A k \in DOMAIN c : c[k] # None

\* C1: on a non-volatile register that has been read successfully, a
\* read() with ignore_cache=false performs no transport read, and a read()
\* with ignore_cache=true performs one.
C1_CacheHitAvoidsIO ==
    (call.op = "read" /\ RegOf(api).non_volatile) =>
        /\ call.cache_hit => call.io_reads = 0
        /\ call.ignore_cache => call.io_reads = 1

\* the arguments of a typed write() that are outside the allowed sets
OutsideAllowed(a, args) ==
    CASE a = "bmp280.ctrl_meas" ->
            \/ args.pressure_oversampling \notin {0, 1, 2, 4, 8, 16}
            \/ args.temperature_oversampling \notin {0, 1, 2, 4, 8, 16}
            \/ args.measurement_mode \notin {"trigger", "interval", "sleep"}
      [] a = "bmp280.config" ->
            \/ args.measurement_period_ms \notin {1, 125, 250, 500, 1000, 2000, 4000, 8000}
            \/ args.smoothing_const \notin {1, 2, 4, 8, 16}
      [] a = "hdc1080.config" ->
            \/ args.temp_resolution_bits \notin {11, 14}
            \/ args.humidity_resolution_bits \notin {8, 11, 14}
      [] a = "ccs811.meas_mode" -> args.sample_period \notin {0, 1, 4, 40, 240}
      [] OTHER -> FALSE

\* C2: a typed write() with an argument outside its allowed set raises
\* ValueError, performs no transport write, and leaves the cached values
\* (and the register) unchanged.
C2_ValidationRejectsBeforeIO ==
    [][(call'.op = "write" /\ call'.invocations = 1 /\ OutsideAllowed(api, call'.args)) =>
          /\ call'.err = "ValueError"
          /\ call'.io_writes = 0
          /\ cached' = cached
          /\ regs' = regs]_vars

C2_Witness ==
    /\ call.op = "write"
    /\ call.err = "ValueError"
    /\ OutsideAllowed(api, call.args)
    /\ IsCached(cached)

\* C3: for a register whose fields share one byte through disjoint masks,
\* _field_values_to_raw_bytes returns the same bytes for every insertion
\* order of the same (name, value) pairs.
C3_MergeCommutes ==
    output.fn = "merge" =>
        /\ IsOk(output.bytes)
        /\ \A p \in Perms(Len(input.field_values)) :
              field_values_to_raw_bytes(CodecRegister(input.reg),
                                        Permute(input.field_values, p)) = output.bytes

C3_Witness ==
    /\ output.fn = "merge"
    /\ input.reg = "ctrl_meas"
    /\ input.field_values = <<<<"mode", Some("normal")>>, <<"osrs_p", Some(16)>>,
                              <<"osrs_t", Some(2)>>>>
    /\ output.bytes = Ok(<<\b01010111>>)

\* the integer a field's encoder makes of a value, shifted to the field's place
RECURSIVE FragmentSum(_, _, _)
FragmentSum(reg, items, i) ==
    IF i > Len(items) THEN 0
    ELSE LET field == FieldNamed(reg, items[i][1])
             value == items[i][2][1]
             table == field.encoder.lookup_table
             code == IF field.encoder.kind = "LookupTable"
                     THEN table[CHOOSE k \in 1..Len(table) : table[k][1] = value][2]
                     ELSE value
         IN  code * (2 ^ field.shift[1]) + FragmentSum(reg, items, i + 1)

\* C4: for fields supplied to _field_values_to_raw_bytes that share a byte
\* through disjoint masks, the byte emitted is the bitwise OR (the sum, the
\* masks being disjoint) of each value shifted left by the trailing-zero
\* count of its field's mask; f1 (mask 0xF0) = 0b0001 and f2 (mask 0x0F) =
\* 0b1000 give 0b00011000.
C4_MergeIsOrOfShifted ==
    output.fn = "merge" =>
        /\ output.bytes = Ok(<<FragmentSum(CodecRegister(input.reg), input.field_values, 1)>>)
        /\ (input.reg = "my_register"
            /\ \A i \in 1..2 : input.field_values[i] \in {<<"f1", Some(\b0001)>>,
                                                          <<"f2", Some(\b1000)>>})
           => output.bytes = Ok(<<\b00011000>>)

C4_Witness ==
    /\ output.fn = "merge"
    /\ input.reg = "my_register"
    /\ input.field_values = <<<<"f1", Some(\b0001)>>, <<"f2", Some(\b1000)>>>>
    /\ output.bytes = Ok(<<\b00011000>>)

\* C5: _encode_mask(_decode_mask(raw)) is raw AND bit_mask, so OR-ing it
\* with raw AND NOT bit_mask restores raw; with no bit_mask both functions
\* return their input.
C5_MaskRoundTrip ==
    output.fn = "mask" =>
        IF input.field.bit_mask = None
        THEN output.decoded = Ok(input.raw) /\ output.encoded = Ok(input.raw)
        ELSE /\ IsOk(output.decoded)
             /\ IsOk(output.encoded)
             /\ Len(output.encoded.val) = Len(input.raw)
             /\ LET raw == int_from_bytes(input.raw, input.field.byte_order, FALSE)
                    masked == BitAnd(raw, input.field.bit_mask[1])
                    encoded == int_from_bytes(output.encoded.val, input.field.byte_order, FALSE)
                IN  /\ encoded = masked
                    /\ BitOr(encoded, raw - masked) = raw

C5_Witness ==
    /\ output.fn = "mask"
    /\ input.field.bit_mask = Some(\b11110000)
    /\ input.raw = <<\b00111100>>
    /\ output.decoded = Ok(<<\b00000011>>)
    /\ output.encoded = Ok(<<\b00110000>>)

\* the field values a successful write() of the arguments puts on the device
Written(a, args) ==
    CASE a = "bmp280.ctrl_meas" ->
            [osrs_t |-> Some(args.temperature_oversampling),
             osrs_p |-> Some(args.pressure_oversampling),
             mode |-> Some(CASE args.measurement_mode = "trigger" -> "forced"
                             [] args.measurement_mode = "interval" -> "normal"
                             [] args.measurement_mode = "sleep" -> "sleep")]
      [] a = "bmp280.config" ->
            [t_sb |-> Some(args.measurement_period_ms),
             filter |-> Some(args.smoothing_const),
             spi3w_en |-> Some(args.disable_I2C)]
      [] a = "hdc1080.config" ->
            [reset |-> Some(args.soft_reset),
             heater_on |-> Some(args.heater_on),
             measure_both |-> Some(args.measure_both),
             battery_low |-> Some(0),
             temp_res_bits |-> Some(args.temp_resolution_bits),
             rh_res_bits |-> Some(args.humidity_resolution_bits),
             reserved |-> Some(0)]
      [] a = "ccs811.meas_mode" ->
            [sample_period |-> Some(args.sample_period),
             enable_interrupt |-> Some(0),
             interrupt_on_thresh |-> Some(0)]

\* C6: after a successful write() on ctrl_meas, config (BMP280), config
\* (HDC1080) or meas_mode with allowed arguments, the bytes a transport read
\* of the register returns decode to exactly the field values written.
C6_WriteReadRoundTrip ==
    (/\ api \in {"bmp280.ctrl_meas", "bmp280.config", "hdc1080.config", "ccs811.meas_mode"}
     /\ call.op = "write"
     /\ call.err = "none") =>
        LET raw_bytes == i2c_read(api, regs, FALSE)
        IN  /\ IsOk(raw_bytes)
            /\ raw_bytes_to_field_values(RegOf(api), raw_bytes.val) = Ok(Written(api, call.args))

C6_Witness ==
    /\ api = "bmp280.ctrl_meas"
    /\ call.op = "write"
    /\ call.err = "none"
    /\ call.args = [pressure_oversampling |-> 4, temperature_oversampling |-> 1,
                    measurement_mode |-> "interval"]
    /\ regs[\hF4] = \b00101111

\* C7: a write() called directly that fails (validation, a field's encode,
\* or the transport write) leaves the cached values as they were before the
\* call.
C7_FailedWriteKeepsCache ==
    [][(call'.op = "write" /\ ~call'.wrapped /\ call'.err # "none") => cached' = cached]_vars

\* C8: the cache of a register API is Uninitialized (every field None) or
\* Cached (every field a value) and nothing else; it leaves Uninitialized
\* only on a call that succeeds, stays Cached on later successful reads and
\* writes, and returns to Uninitialized only when the retry wrapper has
\* exhausted its retries.  The claim names the successful read as the only
\* way out of Uninitialized; the successful write is let through here as
\* well, so that a call that fails and initializes the cache is what
\* violates the property.
C8_TwoStateCache ==
    [][/\ Uninitialized(cached') \/ IsCached(cached')
       /\ (Uninitialized(cached) /\ ~Uninitialized(cached')) =>
              (call'.op \in {"read", "write"} /\ call'.err = "none")
       /\ (IsCached(cached) /\ call'.err = "none") => IsCached(cached')
       /\ (IsCached(cached) /\ ~IsCached(cached')) => call'.reset]_vars

\* C9: when the wrapped operation raises OSError on its first attempt and
\* on both retries, io_safe_retries returns with every key of the owner's
\* cache mapped to None and the key set unchanged.
C9_ExhaustionResetsCache ==
    [][(call'.wrapped /\ call'.invocations = 3 /\ call'.err = "OSError") =>
          /\ pc' = "idle"
          /\ call'.reset
          /\ DOMAIN cached' = DOMAIN cached
          /\ \A k \in DOMAIN cached' : cached'[k] = None]_vars

C9_Witness ==
    /\ call.op = "write"
    /\ call.wrapped
    /\ call.invocations = 3
    /\ call.err = "OSError"
    /\ call.reset
    /\ Uninitialized(cached)

\* C10: io_safe_retries terminates, invokes the wrapped operation at most
\* three times, goes on only after an OSError, and after an attempt that
\* succeeds it returns without resetting the cache.
C10_BoundedRetries ==
    /\ [](call.invocations <= 3)
    /\ [](pc = "retry" => (call.wrapped /\ call.err = "OSError" /\ call.invocations < 3))
    /\ []((call.wrapped /\ call.err = "none") => (pc = "idle" /\ ~call.reset /\ ~Uninitialized(cached)))
    /\ ((pc = "retry") ~> (pc = "idle"))

C10_Witness ==
    /\ call.wrapped
    /\ call.invocations = 3
    /\ call.err = "none"
    /\ pc = "idle"
    /\ IsCached(cached)

\* the bus answers, and a field of the register fails to decode the answer
DecodeFails(a, regs_) ==
    LET raw_bytes == i2c_read(a, regs_, FALSE)
    IN  IsOk(raw_bytes) /\ ~IsOk(raw_bytes_to_field_values(RegOf(a), raw_bytes.val))

\* C11: when the transport answers a read() and a field's decode raises (a
\* raw code absent from its lookup table), read() raises the error and the
\* cache equals its value before the call: no field decoded earlier in the
\* same read is stored.
C11_FailedDecodeKeepsCache ==
    [][(/\ call'.op = "read"
        /\ api \notin ResetAPIs
        /\ call'.err # "OSError"
        /\ DecodeFails(api, regs)) =>
          (call'.err = "ValueError" /\ call'.io_reads = 1 /\ cached' = cached /\ regs' = regs)]_vars

\* a read failed on its last field after the fields before it had decoded
C11_Witness ==
    /\ call.op = "read"
    /\ call.err = "ValueError"
    /\ DecodeFails(api, regs)
    /\ LET dec == DecodeFields(RegOf(api), i2c_read(api, regs, FALSE).val)
       IN  IsOk(dec[1]) /\ ~IsOk(dec[Len(dec)])
    /\ Uninitialized(cached)

\* C12: write() on a read-only register API and read() on a write-only one
\* (the reset APIs of the BMP280 and the CCS811) raise AttributeError in
\* every state, perform no transport I/O and change no cache; a call that
\* passes an argument the method does not take raises TypeError, with no
\* I/O and no change either.
C12_UnsupportedOperationRaises ==
    [][/\ (call'.op = "write" /\ api \in ReadOnlyAPIs) =>
             /\ call'.err = IF call'.args = <<>> THEN "AttributeError" ELSE "TypeError"
             /\ call'.io_reads = 0 /\ call'.io_writes = 0
             /\ cached' = cached /\ sibling' = sibling /\ regs' = regs
       /\ (call'.op = "read" /\ api \in ResetAPIs) =>
             /\ call'.err = IF call'.ignore_cache THEN "TypeError" ELSE "AttributeError"
             /\ call'.io_reads = 0 /\ call'.io_writes = 0
             /\ cached' = cached /\ sibling' = sibling /\ regs' = regs]_vars

\* read() on the CCS811 reset API after a write() that restarted the device
C12_Witness ==
    /\ api = "ccs811.reset"
    /\ call.op = "read"
    /\ call.err = "AttributeError"
    /\ IsCached(sibling)
    /\ \hFF \in DOMAIN regs

\* C13: an attempt of a call wrapped by io_safe_retries that raises anything
\* but OSError (unsupported operation, validation, codec) ends the call: the
\* exception propagates, the wrapper is left (no further attempt follows),
\* and the cache is not reset; when it is the first attempt, the operation
\* was invoked exactly once.  (An attempt that waits has raised nothing yet.)
C13_OnlyTransportErrorsRetried ==
    [][(call'.wrapped /\ call'.err \notin {"none", "OSError", "pending"}) =>
          /\ pc' = "idle"
          /\ ~call'.reset
          /\ pc = "idle" => call'.invocations = 1
          /\ Uninitialized(cached') => Uninitialized(cached)]_vars

\* a wrapped env_data.write whose humidity does not encode
C13_Witness ==
    /\ call.wrapped
    /\ call.op = "write"
    /\ call.err = "OverflowError"
    /\ call.invocations = 1
    /\ pc = "idle"
    /\ IsCached(cached)

\* the unsigned integer of one byte, or of two little-endian bytes
RawInteger(raw) == IF Len(raw) = 1 THEN raw[1] ELSE raw[1] + 256 * raw[2]

\* C14: LookupTable.decode raises ValueError for every raw integer that is
\* not a code of the table (never a default or a nearest key); for a raw
\* integer that is a code it returns a key the table maps to that code.  With
\* {sleep: 0b00, forced: 0b10, normal: 0b11}, decode(0b11) is "normal" and
\* decode(0b01) raises.
C14_LookupDecodeFailsOnUnknownCode ==
    output.fn = "lookup_decode" =>
        LET table == LookupTableNamed(input.table)
            int_val == RawInteger(input.raw)
            keys == {i \in 1..Len(table) : table[i][2] = int_val}
        IN  /\ keys = {} => output.val = Raise("ValueError")
            /\ keys # {} =>
                  /\ IsOk(output.val)
                  /\ \E i \in keys : output.val.val = Some(table[i][1])
            /\ (input.table = "mode" /\ input.raw = <<3>>) => output.val = Ok(Some("normal"))
            /\ (input.table = "mode" /\ input.raw = <<1>>) => output.val = Raise("ValueError")

C14_Witness ==
    /\ output.fn = "lookup_decode"
    /\ input.table = "mode"
    /\ input.raw = <<1>>
    /\ output.val = Raise("ValueError")

\* C15: constructing a Field with bit_mask 0 raises ValueError, so no Field
\* with a zero mask exists; for every non-zero mask the stored shift is the
\* number of trailing zero bits of the mask (the n with 2^n dividing the mask
\* and bit n set).
C15_ZeroMaskRejected ==
    output.fn = "field_init" =>
        /\ input.bit_mask = Some(0) => output.val = Raise("ValueError")
        /\ IsOk(output.val) => output.val.val.bit_mask # Some(0)
        /\ (input.bit_mask # None /\ input.bit_mask # Some(0)) =>
              /\ IsOk(output.val)
              /\ output.val.val.bit_mask = input.bit_mask
              /\ \E n \in 0..16 :
                    /\ output.val.val.shift = Some(n)
                    /\ input.bit_mask[1] % (2 ^ n) = 0
                    /\ (input.bit_mask[1] \div (2 ^ n)) % 2 = 1

C15_Witness ==
    /\ output.fn = "field_init"
    /\ input.bit_mask = Some(0)
    /\ output.val = Raise("ValueError")

\* C16: constructing a Register with two fields of the same name, or a Device
\* with two registers of the same name or with an empty address map, fails
\* at construction time.  The constructors have no such check: the
\* descriptor is built, and of two equally named entries the later one
\* silently replaces the earlier.
C16_DuplicateNamesRejected ==
    /\ (output.fn = "register_init" /\ DuplicateNames(input.fields)) => ~IsOk(output.val)
    /\ (output.fn = "device_init"
          /\ (DuplicateNames(input.registers) \/ input.i2c_addresses = <<>>)) =>
             ~IsOk(output.val)

\* the unsigned integer that one or two bytes stand for in a byte order
UnsignedOf(b, byte_order) ==
    IF Len(b) = 1 THEN b[1]
    ELSE IF byte_order = "big" THEN 256 * b[1] + b[2] ELSE b[1] + 256 * b[2]

\* whether an integer lies in the range of an n-byte unsigned or signed field
InSpan(v, n, signed) ==
    IF signed THEN -(2 ^ (8 * n - 1)) <= v /\ v < 2 ^ (8 * n - 1)
    ELSE 0 <= v /\ v < 2 ^ (8 * n)

\* C17: UIntEncoder.encode and SIntEncoder.encode raise OverflowError, and
\* never return truncated bytes, for every integer outside the field's byte
\* span (unsigned 0..2^(8n)-1, signed -2^(8n-1)..2^(8n-1)-1); for an integer
\* inside it they return n bytes that stand for exactly that integer.
\* Field.encode likewise raises when the encoded value shifted to the mask
\* position no longer fits the n bytes.
C17_IntegerEncodeOverflowRaises ==
    (output.fn = "encode" /\ input.field.encoder.kind \in {"UIntEncoder", "SIntEncoder"}) =>
        LET field == input.field
            n == n_bytes(field)
            v == input.value[1]
            signed == field.encoder.kind = "SIntEncoder"
            unsigned == IF v < 0 THEN v + 2 ^ (8 * n) ELSE v
            shifted == unsigned * (2 ^ field.shift[1])
        IN  /\ ~InSpan(v, n, signed) =>
                  /\ output.val = Raise("OverflowError")
                  /\ output.masked = Raise("OverflowError")
            /\ InSpan(v, n, signed) =>
                  /\ IsOk(output.val)
                  /\ Len(output.val.val) = n
                  /\ UnsignedOf(output.val.val, field.byte_order) = unsigned
            /\ (InSpan(v, n, signed) /\ field.bit_mask = None) => output.masked = output.val
            /\ (InSpan(v, n, signed) /\ field.bit_mask # None /\ shifted >= 2 ^ (8 * n)) =>
                  output.masked = Raise("OverflowError")
            /\ (InSpan(v, n, signed) /\ field.bit_mask # None /\ shifted < 2 ^ (8 * n)) =>
                  /\ IsOk(output.masked)
                  /\ Len(output.masked.val) = n
                  /\ UnsignedOf(output.masked.val, field.byte_order) = shifted

C17_Witness ==
    /\ output.fn = "encode"
    /\ input.field.encoder.kind = "UIntEncoder"
    /\ n_bytes(input.field) = 1
    /\ input.value = Some(256)
    /\ output.val = Raise("OverflowError")

\* C18: reading the calibration register over the bytes of the test fixture
\* yields the datasheet constants, each signed 16-bit field being the two's
\* complement value of its two bytes (dig_t3, read from 0x18, 0xFC, is -1000).
\* The fields are declared with the default byte order "big" while the
\* fixture, like the device, stores the least significant byte first.
C18_CalibrationDecodesDatasheetConstants ==
    (/\ api = "bmp280.calibration"
     /\ regs = calibration_registers
     /\ call.op = "read"
     /\ call.err = "none") =>
        /\ cached["dig_t1"] = Some(27504)
        /\ cached["dig_t2"] = Some(26435)
        /\ cached["dig_t3"] = Some(-1000)
        /\ cached["dig_p1"] = Some(36477)
        /\ cached["dig_p2"] = Some(-10685)
        /\ cached["dig_p3"] = Some(3024)
        /\ cached["dig_p4"] = Some(2855)
        /\ cached["dig_p5"] = Some(140)
        /\ cached["dig_p6"] = Some(-7)
        /\ cached["dig_p7"] = Some(15500)
        /\ cached["dig_p8"] = Some(-14600)
        /\ cached["dig_p9"] = Some(6000)

\* the codes of a lookup table are pairwise distinct
DistinctCodes(table) == \A i, j \in 1..Len(table) : table[i][2] = table[j][2] => i = j

\* the code a lookup table gives a key
CodeOf(table, key) == table[CHOOSE i \in 1..Len(table) : table[i][1] = key[1]][2]

\* C19: decode(encode(v)) returns v for every encoder and every value of its
\* domain: exactly for UIntEncoder and SIntEncoder over the integers of the
\* field's byte span, exactly for LookupTable over every key whose code fits
\* the byte span (0..2^(8n)-1, the codes decode can return), and within one
\* step of 1/512 for the two fixed-point encoders over the values their two
\* bytes represent.  LookupTable.encode converts the code with signed=True, so
\* a key whose code has the top bit of the span set raises OverflowError.
C19_DecodeInvertsEncode ==
    output.fn = "round_trip" =>
        LET field == input.field
            kind == field.encoder.kind
            n == n_bytes(field)
        IN  /\ (kind \in {"UIntEncoder", "SIntEncoder"}
                  /\ InSpan(input.value[1], n, kind = "SIntEncoder")) =>
                     output.val = Ok(input.value)
            /\ (kind = "LookupTable"
                  /\ DistinctCodes(field.encoder.lookup_table)
                  /\ InSpan(CodeOf(field.encoder.lookup_table, input.value), n, FALSE)) =>
                     output.val = Ok(input.value)
            /\ (kind = "HumidityFixedPoint"
                  /\ 0 <= input.value[1] /\ input.value[1] <= 2 * 65535) =>
                     /\ IsOk(output.val)
                     /\ output.val.val[1] - input.value[1] \in -2..2
            /\ (kind = "TemperatureFixedPoint"
                  /\ -25 * 1024 <= input.value[1]
                  /\ input.value[1] <= 2 * 65535 - 25 * 1024) =>
                     /\ IsOk(output.val)
                     /\ output.val.val[1] - input.value[1] \in -2..2

\* C20: TemperatureFixedPoint.encode(v) gives the two-byte value
\* max(round((v + 25) * 512), 0), round being to the nearest integer with
\* ties to even: every temperature at or below -25 encodes to 0 without an
\* error and encode(0.0) gives 12800; decode(raw) returns raw / 512 - 25, so
\* decode(0) is -25.0 and decode(12800) is 0.0.  Temperatures are counts of
\* 1/1024 degree, and the encode part covers the values whose result fits two
\* bytes.
C20_TemperatureFixedPoint ==
    /\ (output.fn = "encode" /\ input.field.encoder.kind = "TemperatureFixedPoint") =>
          LET s == input.value[1] + 25 * 1024
              b == output.val.val
              r == UnsignedOf(b, input.field.byte_order)
          IN  /\ s <= 0 => output.val = Ok(<<0, 0>>)
              /\ (s > 0 /\ s < 2 * 65535) =>
                    /\ IsOk(output.val)
                    /\ Len(b) = 2
                    /\ 2 * r - s \in -1..1
                    /\ 2 * r # s => r % 2 = 0
              /\ input.value = Some(0) => (IsOk(output.val) /\ r = 12800)
    /\ (output.fn = "decode" /\ input.field.encoder.kind = "TemperatureFixedPoint") =>
          /\ output.val =
                Ok(Some(2 * UnsignedOf(input.raw, input.field.byte_order) - 25 * 1024))
          /\ input.raw = <<0, 0>> => output.val = Ok(Some(-25 * 1024))
          /\ input.raw = <<\h32, \h00>> => output.val = Ok(Some(0))

C20_Witness ==
    /\ output.fn = "encode"
    /\ input.field.encoder.kind = "TemperatureFixedPoint"
    /\ input.value = Some(-25 * 1024 - 512)
    /\ output.val = Ok(<<0, 0>>)

\* C21: encode on a read-only measurement field raises and never returns
\* bytes, for both raw_data fields of the CCS811 (current_uA, voltage) and for
\* the temperature and humidity fields of the HDC1080, whatever the value.
\* The current_uA field is declared without an encoder, so it gets the
\* default UIntEncoder and encodes like any other integer field.
C21_MeasurementEncodeRaises ==
    (output.fn = "encode" /\ input.field \in MeasurementFields) =>
        /\ ~IsOk(output.val)
        /\ ~IsOk(output.masked)

\* the byte indexes of the fields supplied
SuppliedIndexes(reg, items) ==
    {FieldNamed(reg, items[i][1]).byte_index : i \in 1..Len(items)}

\* the number of bytes a byte index spans
Span(index) == index[Len(index)] - index[1] + 1

RECURSIVE SpanSum(_)
SpanSum(S) == IF S = {} THEN 0 ELSE LET x == CHOOSE e \in S : TRUE IN Span(x) + SpanSum(S \ {x})

\* the byte indexes placed before a byte index: those that start earlier, or
\* start at the same byte and are shorter
PlacedBefore(index, S) ==
    {j \in S : j[1] < index[1] \/ (j[1] = index[1] /\ Len(j) < Len(index))}

\* the sum of the encoded fragments of the items on one byte index
RECURSIVE GroupSum(_, _, _, _)
GroupSum(reg, items, index, i) ==
    IF i > Len(items) THEN 0
    ELSE (IF FieldNamed(reg, items[i][1]).byte_index = index
          THEN int_from_bytes(Field_encode(FieldNamed(reg, items[i][1]), items[i][2]).val,
                              "big", FALSE)
          ELSE 0) + GroupSum(reg, items, index, i + 1)

\* C22: _field_values_to_raw_bytes returns the concatenation, in increasing
\* starting byte offset, of exactly one fragment per distinct byte_index among
\* the supplied fields: the fragment of a byte index lies right after those of
\* the byte indexes that start earlier, and holds the merge of its fields'
\* encodings.  Bytes no supplied field touches are absent, so the length is
\* the sum of the spans of the supplied byte indexes.
C22_JoinInOffsetOrder ==
    (output.fn = "join" /\ IsOk(output.bytes)) =>
        LET reg == CodecRegister(input.reg)
            items == input.field_values
            S == SuppliedIndexes(reg, items)
            raw == output.bytes.val
        IN  /\ Len(raw) = SpanSum(S)
            /\ \A index \in S :
                  LET offset == SpanSum(PlacedBefore(index, S))
                  IN  int_from_bytes(SubSeq(raw, offset + 1, offset + Span(index)),
                                     "big", FALSE)
                         = GroupSum(reg, items, index, 1)

C22_Witness ==
    /\ output.fn = "join"
    /\ input.reg = "gap"
    /\ input.field_values = <<<<"f3", Some(65535)>>, <<"f1", Some(0)>>>>
    /\ output.bytes = Ok(<<0, 255, 255>>)

\* C23: after a successful CCS811 data.read() the values map has exactly the
\* keys eco2 and tvoc, holding the unsigned big-endian 16-bit integers of
\* bytes 0-1 and 2-3 (00 80 01 00 give eco2 = 128 and tvoc = 256), so that the
\* sampling loop's values["eco2"] succeeds.  The register declares its first
\* field under the name co2.
C23_DataReadGivesEco2 ==
    (/\ api = "ccs811.data"
     /\ regs = WithStatus(data_registers)
     /\ call.op = "read"
     /\ call.err = "none") =>
        /\ DOMAIN cached = {"eco2", "tvoc"}
        /\ cached["eco2"] = Some(128)
        /\ cached["tvoc"] = Some(256)

\* the mode the latest of sleep, wake, set_host_sync and set_device_sync
\* leaves the sensor in
ModeAfter(op, before) ==
    IF op \in {"wake", "set_host_sync"} THEN PMS7003_modes.passive
    ELSE IF op = "set_device_sync" THEN PMS7003_modes.active
    ELSE IF op = "sleep" THEN PMS7003_modes.sleep
    ELSE before

\* a call that raised ValueError before touching the port or the cache
RefusedCall == call'.err = "ValueError" /\ serial' = <<>> /\ cached' = cached

\* C24: a freshly constructed PMS7003 is in passive mode; the mode is the one
\* set by the most recent mode command; read() touches the serial port only
\* in passive mode and listen() only in active mode, and in any other mode
\* each raises ValueError with no serial I/O and the cached values unchanged.
C24_ModeGuardsSerialIO ==
    /\ mode = PMS7003_modes.passive
    /\ [][/\ mode' = ModeAfter(call'.op, mode)
          /\ call'.op = "read" =>
                /\ serial' # <<>> => mode = PMS7003_modes.passive
                /\ mode # PMS7003_modes.passive => RefusedCall
          /\ call'.op = "listen" =>
                /\ serial' # <<>> => mode = PMS7003_modes.active
                /\ mode # PMS7003_modes.active => RefusedCall]_vars

\* listen() was refused in passive mode after a read() had filled the cache
C24_Witness ==
    /\ api = "pms7003"
    /\ call = PmsCall("listen", "ValueError", <<>>)
    /\ mode = PMS7003_modes.passive
    /\ serial = <<>>
    /\ cached.pm1_0 = 258

\* the frame is one _parse_frame accepts: 30 bytes, the last two the
\* big-endian sum of the start bytes and the 28 bytes before them
SoundFrame(f) ==
    /\ Len(f) = 30
    /\ 256 * f[29] + f[30] = \h42 + \h4D + SumBytes(SubSeq(f, 1, 28))

\* C25: _parse_frame accepts a frame only if it has 30 bytes and its trailing
\* big-endian checksum is the byte sum of the two start bytes and the first
\* 28 frame bytes; a 30-byte frame with another checksum raises IOError, and
\* the read() or listen() that met it leaves every cached value unchanged
\* (when that read() was the last try of io_safe_retries, the wrapper's
\* reset_cache then sets every cached value to None).
C25_ChecksumGuardsCache ==
    [][(call'.op \in {"read", "listen"} /\ serial' # <<>>) =>
          /\ call'.err = "none" <=> SoundFrame(call'.frame)
          /\ (Len(call'.frame) = 30 /\ ~SoundFrame(call'.frame)) => call'.err = "OSError"
          /\ call'.err # "none" =>
                cached' = IF call'.reset THEN reset_cache(cached) ELSE cached
          /\ call'.err = "none" =>
                /\ cached'.pm1_0 = 256 * call'.frame[3] + call'.frame[4]
                /\ cached'.error = call'.frame[28]]_vars

\* a read() met a 30-byte frame with a wrong checksum and the reading of an
\* earlier frame is still cached
C25_Witness ==
    /\ api = "pms7003"
    /\ call.op = "read"
    /\ call.err = "OSError"
    /\ Len(call.frame) = 30
    /\ cached.pm1_0 = 258
    /\ 256 * call.frame[3] + call.frame[4] # 258

\* the positions in the latest call's port log where command was written
WritesOf(command) == {i \in DOMAIN serial : serial[i] = PortCall("write", command)}

\* the positions in the latest call's port log where the port was read
ReadsOf == {i \in DOMAIN serial : serial[i].op = "read"}

\* bit 5 of the big-endian value in bytes 3 and 4 of a response
AckBit(response) ==
    LET b == PySlice(response, 3, 5)
        val == IF Len(b) = 2 THEN 256 * b[1] + b[2] ELSE IF Len(b) = 1 THEN b[1] ELSE 0
    IN  (val \div 32) % 2

\* C26: configure_abc with disable=True writes the disable_abc command and
\* nothing else. With disable=False and recalibrate=True it writes clear_ack
\* once, then force_abc once, and only then asks for and reads the
\* acknowledgement register; it raises S8Error exactly when the value read
\* back (a response that passed the CRC check) has bit 5 clear. Without
\* recalibrate no recalibration command is written.  While the call waits
\* (after clear_ack and after force_abc) the same order holds of what it has
\* written so far, and the acknowledgement has not been asked for.
C26_RecalibrationOrder ==
    (api = "s8" /\ call.op = "configure_abc") =>
        LET disable == call.args[2]
            recalibrate == call.args[3]
        IN  /\ disable = 1 =>
                  /\ serial = <<PortCall("write", S8_commands.disable_abc)>>
                  /\ call.err = "none"
            /\ call.err = "pending" =>
                  /\ disable = 0 /\ recalibrate = 1
                  /\ Cardinality(WritesOf(S8_commands.clear_ack)) = 1
                  /\ Cardinality(WritesOf(S8_commands.force_abc)) =
                        IF pc = "calibrating" THEN 1 ELSE 0
                  /\ ReadsOf \cup WritesOf(S8_commands.read_ack) = {}
                  /\ \A i \in WritesOf(S8_commands.clear_ack) :
                        \A j \in WritesOf(S8_commands.force_abc) : i < j
            /\ (disable = 0 /\ recalibrate = 1 /\ call.err \notin {"OverflowError", "pending"}) =>
                  /\ Cardinality(WritesOf(S8_commands.clear_ack)) = 1
                  /\ Cardinality(WritesOf(S8_commands.force_abc)) = 1
                  /\ Cardinality(ReadsOf) = 1
                  /\ WritesOf(S8_commands.disable_abc) = {}
                  /\ \A i \in WritesOf(S8_commands.clear_ack) :
                        \A j \in WritesOf(S8_commands.force_abc) :
                           \A k \in ReadsOf \cup WritesOf(S8_commands.read_ack) : i < j /\ j < k
                  /\ call.err = "S8Error" <=>
                        \E k \in ReadsOf : /\ ModbusCRC_check(serial[k].data)
                                            /\ AckBit(serial[k].data) = 0
                  /\ call.err = "none" <=>
                        \E k \in ReadsOf : /\ ModbusCRC_check(serial[k].data)
                                            /\ AckBit(serial[k].data) = 1
            /\ (disable = 0 /\ recalibrate = 0) =>
                  /\ WritesOf(S8_commands.clear_ack) = {}
                  /\ WritesOf(S8_commands.force_abc) = {}
                  /\ ReadsOf = {}
                  /\ call.err # "S8Error"

\* a recalibration after a period write read back a sound acknowledgement
\* with bit 5 clear and raised S8Error
C26_Witness ==
    /\ api = "s8"
    /\ call = S8Call("configure_abc", <<Some(5), 0, 1>>, "S8Error")
    /\ Len(serial) = 6
    /\ serial[6].data = S8Answer(\h0040)
    /\ cached.abc_period = Some(5)

\* C27: Field.encode of a field with a bit_mask never produces a bit outside
\* the mask: for every value it either raises or returns bytes whose AND with
\* the complement of bit_mask is zero.
C27_EncodeStaysInMask ==
    (/\ output.fn = "encode"
     /\ Len(input.field.bit_mask) = 1
     /\ IsOk(output.masked)) =>
        \E encoded \in {UnsignedOf(output.masked.val, input.field.byte_order)} :
            BitAnd(encoded, input.field.bit_mask[1]) = encoded

\* the entry is an integer decoded from the register, not a calibrated value
RawADC(entry) == Len(entry) = 1

\* C28: the cache of the BMP280 data API never holds uncalibrated raw ADC
\* integers once a read() has ended, whether it returned or raised: each
\* entry is the one held before the call (None at first) or a calibrated
\* value computed from this read.
C28_DataCacheNeverRaw ==
    (api \in DataAPIs /\ pc = "idle") =>
        \A q \in DOMAIN cached : ~RawADC(cached[q])

\* the register APIs whose write() reaches the transport
WritableAPIs ==
    {"bmp280.reset", "bmp280.ctrl_meas", "bmp280.config", "ccs811.reset", "ccs811.env_data",
     "ccs811.meas_mode", "hdc1080.config"}

\* C29: every byte payload a write() of a shipped register API (BMP280 reset,
\* ctrl_meas, config; CCS811 reset, env_data, meas_mode; HDC1080 config)
\* hands to the transport has exactly n_bits / 8 bytes of its register, for
\* every allowed combination of arguments.
C29_PayloadSpansRegister ==
    (call.op = "write" /\ call.io_writes > 0) =>
        /\ api \in WritableAPIs
        /\ 8 * Len(call.payload) = RegOf(api).n_bits

\* the HDC1080's config write handed two bytes to the transport
C29_Witness ==
    /\ api = "hdc1080.config"
    /\ call.op = "write"
    /\ call.err = "none"
    /\ call.args.humidity_resolution_bits = 8
    /\ Len(call.payload) = 2

\* C30: after any sequence of successful or failed read() and write() calls
\* and of cache resets by an exhausted io_safe_retries, the keys of a register
\* API's cache are exactly the names of the fields of its register.
C30_CacheKeysAreFieldNames ==
    api \notin ResetAPIs => DOMAIN cached = FieldNames(RegOf(api))

\* the exhausted retries of a write of env_data reset a cache that write() had
\* replaced by its field map
C30_Witness ==
    /\ api = "ccs811.env_data"
    /\ call.op = "write"
    /\ call.reset
    /\ call.invocations = 1 + Retries
    /\ DOMAIN cached = {"temperature", "humidity"}
    /\ \A k \in DOMAIN cached : cached[k] = None

====
